---- MODULE Spec2Model ----
(***************************************************************************)
(* A model of the hebcal-api client library (src/src/hebcal_api): the      *)
(* parameter validators of the six endpoint clients, the transport         *)
(* (fetch_sync / fetch_async) and the response mappers of tools/types.py.  *)
(*                                                                         *)
(* A Python value is a record [t, n, s, d]: t is its type tag, n its       *)
(* number, s its text and d its calendar date.  A Python dict is a TLA+    *)
(* function from keys to such values; a dict literal whose order matters   *)
(* (the extra parameters of _merge_params) is a sequence of <<key, value>> *)
(* pairs.  The result of a call is [kind, exc, msg, val]: kind "ok" with   *)
(* the returned value, or kind "raise" with the exception class and        *)
(* message.                                                                *)
(***************************************************************************)
EXTENDS Integers, Sequences, FiniteSets, TLC

VARIABLES
    params,     \* params[c]: the stored parameter mapping (self.params) of client c
    nmut,       \* number of mutating calls (set_param, add_event) made so far
    call,       \* the last operation called, with its arguments
    sent,       \* the mappings handed to the transport during the last call, in order
    outcome,    \* what the last call returned or raised
    log,        \* the warnings the last call wrote to the logger, in order
    padded      \* whether the interpreter's strftime writes a year below 1000
                \* with four digits (the C library decides)

vars == <<params, nmut, call, sent, outcome, log, padded>>

-----------------------------------------------------------------------------
(* Python values *)

\* the date part of a value that has none
NoDate == <<>>

None == [t |-> "none", n |-> 0, s |-> "", d |-> NoDate]

IntV(i) == [t |-> "int", n |-> i, s |-> "", d |-> NoDate]

FloatV(i) == [t |-> "float", n |-> i, s |-> "", d |-> NoDate]

BoolV(b) == [t |-> "bool", n |-> IF b THEN 1 ELSE 0, s |-> "", d |-> NoDate]

StrV(x) == [t |-> "str", n |-> 0, s |-> x, d |-> NoDate]

\* bool(v): the truth value Python gives a value in `if v`, `not v`, any([...])
Truthy(v) ==
    CASE v.t = "none" -> FALSE
      [] v.t \in {"int", "float", "bool"} -> v.n # 0
      [] v.t = "str" -> ~(v.s = "" /\ v.d = NoDate)
      [] v.t = "dict" -> v.n # 0
      [] OTHER -> TRUE

EmptyMap == <<>>

\* d[k] = v on a dict
DictSet(m, k, v) == [x \in (DOMAIN m) \cup {k} |-> IF x = k THEN v ELSE m[x]]

\* d.update(e)
DictUpdate(m, e) == [x \in (DOMAIN m) \cup (DOMAIN e) |-> IF x \in DOMAIN e THEN e[x] ELSE m[x]]

\* d.pop(k, None)
DictPop(m, k) == [x \in (DOMAIN m) \ {k} |-> m[x]]

Ok(v) == [kind |-> "ok", exc |-> "", msg |-> "", val |-> v]

Raise(e, m) == [kind |-> "raise", exc |-> e, msg |-> m, val |-> EmptyMap]

-----------------------------------------------------------------------------
(* Text samples.  The characters of the texts given as zip codes: the code *)
(* asks str.isdigit() and len() of them.  "d" is an ASCII digit, "u" a     *)
(* decimal digit outside ASCII (str.isdigit() is true of U+0663), "a" a    *)
(* letter; the text written u0661u0662u0663u0664u0665 is the five          *)
(* Arabic-Indic digits U+0661..U+0665.                                     *)

ZipChars(s) ==
    CASE s = "12345" -> <<"d", "d", "d", "d", "d">>
      [] s = "1234" -> <<"d", "d", "d", "d">>
      [] s = "123456" -> <<"d", "d", "d", "d", "d", "d">>
      [] s = "1234a" -> <<"d", "d", "d", "d", "a">>
      [] s = "u0661u0662u0663u0664u0665" -> <<"u", "u", "u", "u", "u">>
      [] OTHER -> <<>>

\* str.isdigit(): non-empty and every character a Unicode digit
IsDigit(s) ==
    LET cs == ZipChars(s)
    IN  Len(cs) > 0 /\ \A i \in 1..Len(cs) : cs[i] \in {"d", "u"}

StrLen(s) == Len(ZipChars(s))

-----------------------------------------------------------------------------
(* Calendar._validate_location_params *)

LocationMsgGeo == "geonameid must be a positive integer"
LocationMsgZip == "zip must be a 5-digit string"
LocationMsgTriple == "latitude, longitude, and tzid must all be provided together"
LocationMsgNone == "You must provide one location parameter"
LocationMsgMany == "Only one location parameter is allowed"

\* the list `provided` the validator builds, as far as no check raised
LocationProvided(geonameid, zip_code, latitude, longitude, tzid, city) ==
    (IF geonameid # None THEN <<"geonameid">> ELSE <<>>)
    \o (IF zip_code # None THEN <<"zip">> ELSE <<>>)
    \o (IF Truthy(latitude) \/ Truthy(longitude) \/ Truthy(tzid) THEN <<"latlon">> ELSE <<>>)
    \o (IF city # None THEN <<"city">> ELSE <<>>)

Calendar_validate_location_params(geonameid, zip_code, latitude, longitude, tzid, city) ==
    LET provided == LocationProvided(geonameid, zip_code, latitude, longitude, tzid, city)
    IN  IF geonameid # None /\ (geonameid.t \notin {"int", "bool"} \/ geonameid.n <= 0)
        THEN Raise("ValueError", LocationMsgGeo)
        ELSE IF zip_code # None
                /\ ~(zip_code.t = "str" /\ IsDigit(zip_code.s) /\ StrLen(zip_code.s) = 5)
        THEN Raise("ValueError", LocationMsgZip)
        ELSE IF (Truthy(latitude) \/ Truthy(longitude) \/ Truthy(tzid))
                /\ (latitude = None \/ longitude = None \/ tzid = None)
        THEN Raise("ValueError", LocationMsgTriple)
        ELSE IF Len(provided) = 0
        THEN Raise("ValueError", LocationMsgNone)
        ELSE IF Len(provided) > 1
        THEN Raise("ValueError", LocationMsgMany)
        ELSE IF geonameid # None
        THEN Ok([k \in {"geonameid"} |-> geonameid])
        ELSE IF zip_code # None
        THEN Ok([k \in {"zip"} |-> zip_code])
        ELSE IF latitude # None
        THEN Ok([k \in {"latitude", "longitude", "tzid"} |->
                    IF k = "latitude" THEN latitude
                    ELSE IF k = "longitude" THEN longitude ELSE tzid])
        ELSE IF city # None
        THEN Ok([k \in {"city"} |-> city])
        ELSE Ok(None)

\* the arguments the location validator is called with
GeonameidArgs == {None, IntV(281184), IntV(0), IntV(-1), StrV("281184")}
ZipArgs == {None, StrV("12345"), StrV("1234"), StrV("123456"), StrV("1234a"),
            StrV("u0661u0662u0663u0664u0665")}
LatitudeArgs == {None, FloatV(0), FloatV(31)}
LongitudeArgs == {None, FloatV(0), FloatV(35)}
TzidArgs == {None, StrV("Asia/Jerusalem")}
CityArgs == {None, StrV("Jerusalem")}

LocationArgs ==
    [geonameid : GeonameidArgs, zip_code : ZipArgs, latitude : LatitudeArgs,
     longitude : LongitudeArgs, timezone_id : TzidArgs, city_name : CityArgs]

ValidateLocation(a) ==
    Calendar_validate_location_params(a.geonameid, a.zip_code, a.latitude,
                                      a.longitude, a.timezone_id, a.city_name)

\* the arguments of one call of the location validator
LocationCall(a) == [op |-> "_validate_location_params", mode |-> "sync", args |-> a]

-----------------------------------------------------------------------------
(* The clients' stored state and the shape of a run: a call is made on an  *)
(* idle client, completes (returns or raises), and control is back with    *)
(* the caller before the next call is made.                                *)

DefaultParams == [k \in {"v", "cfg"} |-> IF k = "v" THEN StrV("1") ELSE StrV("json")]

Clients == {"calendar", "shabbat", "leyning", "zmanim", "converter", "yahrzeit"}

NoCall == [op |-> "none", mode |-> "sync", args |-> EmptyMap]

Idle == call.op = "none"

\* every client right after its constructor ran
InitParams ==
    [c \in Clients |->
        IF c = "yahrzeit" THEN DictSet(DefaultParams, "v", StrV("yahrzeit")) ELSE DefaultParams]

Init ==
    /\ params = InitParams
    /\ nmut = 0
    /\ call = NoCall
    /\ sent = <<>>
    /\ outcome = Ok(None)
    /\ log = <<>>
    /\ padded \in BOOLEAN

\* the caller has seen the result of the last call
Return ==
    /\ ~Idle
    /\ call' = NoCall
    /\ sent' = <<>>
    /\ outcome' = Ok(None)
    /\ log' = <<>>
    /\ UNCHANGED <<params, nmut, padded>>

CallValidateLocation ==
    /\ Idle
    /\ \E a \in LocationArgs :
        /\ call' = LocationCall(a)
        /\ outcome' = ValidateLocation(a)
        /\ UNCHANGED <<params, nmut, sent, log, padded>>

NextLocation == CallValidateLocation \/ Return

SpecLocation == Init /\ [][NextLocation]_vars

-----------------------------------------------------------------------------
(* C2: the location validator succeeds exactly when one of the four        *)
(* location forms is supplied and nothing else, and then returns that      *)
(* form's keys with the supplied values; zero forms, two or more forms or  *)
(* a partial latitude/longitude/timezone triple always fail with a         *)
(* validation error.                                                       *)

GeonameidSupplied(a) == a.geonameid # None
ZipSupplied(a) == a.zip_code # None
TripleSupplied(a) == a.latitude # None \/ a.longitude # None \/ a.timezone_id # None
CitySupplied(a) == a.city_name # None

FormsSupplied(a) ==
    (IF GeonameidSupplied(a) THEN 1 ELSE 0) + (IF ZipSupplied(a) THEN 1 ELSE 0)
    + (IF TripleSupplied(a) THEN 1 ELSE 0) + (IF CitySupplied(a) THEN 1 ELSE 0)

PartialTriple(a) ==
    TripleSupplied(a) /\ (a.latitude = None \/ a.longitude = None \/ a.timezone_id = None)

PositiveGeonameid(a) == a.geonameid.t = "int" /\ a.geonameid.n > 0

FiveAsciiDigits(a) ==
    a.zip_code.t = "str" /\ ZipChars(a.zip_code.s) = <<"d", "d", "d", "d", "d">>

\* exactly one form is supplied, and it is well formed
OneValidForm(a) ==
    /\ FormsSupplied(a) = 1
    /\ GeonameidSupplied(a) => PositiveGeonameid(a)
    /\ ZipSupplied(a) => FiveAsciiDigits(a)
    /\ ~PartialTriple(a)

\* the keys of the one form supplied, with the supplied values
FormMapping(a) ==
    IF GeonameidSupplied(a) THEN [k \in {"geonameid"} |-> a.geonameid]
    ELSE IF ZipSupplied(a) THEN [k \in {"zip"} |-> a.zip_code]
    ELSE IF TripleSupplied(a)
    THEN [k \in {"latitude", "longitude", "tzid"} |->
             IF k = "latitude" THEN a.latitude
             ELSE IF k = "longitude" THEN a.longitude ELSE a.timezone_id]
    ELSE [k \in {"city"} |-> a.city_name]

\* C2 as claimed
C2_LocationExactlyOneForm ==
    call.op = "_validate_location_params" =>
        /\ (outcome.kind = "ok") <=> OneValidForm(call.args)
        /\ outcome.kind = "ok" => outcome.val = FormMapping(call.args)
        /\ (FormsSupplied(call.args) # 1 \/ PartialTriple(call.args)) =>
               (outcome.kind = "raise" /\ outcome.exc = "ValueError")

-----------------------------------------------------------------------------
(* The transport: tools/utils.py.  A reply of the server is                *)
(* [net, status, body]: net "fail" is a network-level failure (DNS,        *)
(* connection, timeout), otherwise status is the HTTP status and body the  *)
(* response body: [json, n, error] with json the kind of JSON value        *)
(* ("object", "array", or "invalid" for a body that is no JSON), n the     *)
(* number of its members or items and error the "error" member of an       *)
(* object (Missing when it has none).                                      *)

Missing == [t |-> "missing", n |-> 0, s |-> "", d |-> NoDate]

GeoMessage == "can't find geonameid 123"

Body(json, n, error) == [json |-> json, n |-> n, error |-> error]

\* the bodies an error response comes with
ErrorBodies ==
    { Body("object", 1, StrV(GeoMessage)),
      Body("object", 1, StrV("Invalid year")),
      Body("object", 1, None),
      Body("object", 1, IntV(404)),
      Body("object", 1, Missing),
      Body("array", 0, Missing),
      Body("invalid", 0, Missing) }

\* the bodies a successful response comes with: an object or an array of up to
\* MaxBodyItems items
MaxBodyItems == 2

SuccessBodies ==
    {Body("object", n, Missing) : n \in 0..MaxBodyItems}
    \cup {Body("array", n, Missing) : n \in 0..MaxBodyItems}

SuccessStatuses == {200}
ErrorStatuses == {400, 403, 404, 429, 500, 503}

NetworkFailure == [net |-> "fail", status |-> 0, body |-> Body("invalid", 0, Missing)]

Replies ==
    {[net |-> "ok", status |-> st, body |-> b] : st \in SuccessStatuses, b \in SuccessBodies}
    \cup {[net |-> "ok", status |-> st, body |-> b] : st \in ErrorStatuses, b \in ErrorBodies}
    \cup {NetworkFailure}

\* "can't find geonameid" in text
ContainsGeoMessage(text) == text = GeoMessage

\* what a FetchError carries: the URL it names, the status it names and the
\* server's error message
FetchError(url, status, detail) ==
    [kind |-> "raise", exc |-> "FetchError", msg |-> "fetch",
     val |-> [url |-> url, status |-> status, detail |-> detail]]

\* the URL of the request with its query string, and the bare URL
ResolvedUrl(url, ps) == [url |-> url, query |-> ps]
BareUrl(url) == [url |-> url, query |-> EmptyMap]

\* the branch both fetch functions take on a 404 whose response they hold
NotFoundBranch(full_url, r) ==
    IF r.body.json = "invalid"
    THEN \* response.json() raises ValueError: caught
         FetchError(full_url, IntV(r.status), StrV("Unknown error"))
    ELSE IF r.body.json # "object"
    THEN \* .get of a list
         Raise("AttributeError", "get")
    ELSE LET error_message == IF r.body.error = Missing THEN StrV("Unknown error")
                              ELSE r.body.error
         IN  IF ~Truthy(error_message)
             THEN FetchError(full_url, IntV(r.status), error_message)
             ELSE IF error_message.t # "str"
             THEN \* `"..." in error_message` of a number
                  Raise("TypeError", "in")
             ELSE IF ContainsGeoMessage(error_message.s)
             THEN Raise("InvalidGeoLocationError", error_message.s)
             ELSE FetchError(full_url, IntV(r.status), error_message)

fetch_async(url, ps, r) ==
    IF r.net = "fail"
    THEN FetchError(BareUrl(url), None, StrV("request error"))
    ELSE IF r.status < 400
    THEN Ok(r.body)
    ELSE IF r.status = 404
    THEN NotFoundBranch(ResolvedUrl(url, ps), r)
    ELSE FetchError(ResolvedUrl(url, ps), IntV(r.status), None)

\* bool(response) of a requests.Response is response.ok: false of every
\* response raise_for_status() raises for
ResponseTruthy(r) == r.status < 400

fetch_sync(url, ps, r) ==
    IF r.net = "fail"
    THEN FetchError(BareUrl(url), None, StrV("request error"))
    ELSE IF r.status < 400
    THEN Ok(r.body)
    ELSE IF ResponseTruthy(r) /\ r.status = 404
    THEN NotFoundBranch(ResolvedUrl(url, ps), r)
    ELSE FetchError(ResolvedUrl(url, ps),
                    IF ResponseTruthy(r) THEN IntV(r.status) ELSE StrV("Unknown"),
                    None)

Modes == {"sync", "async"}

Fetch(mode, url, ps, r) ==
    IF mode = "sync" THEN fetch_sync(url, ps, r) ELSE fetch_async(url, ps, r)

\* the parameter mappings the transport is called with on its own
FetchParams == {EmptyMap, DictSet(DefaultParams, "geonameid", IntV(123))}

CallFetch ==
    /\ Idle
    /\ \E mode \in Modes, ps \in FetchParams, r \in Replies :
        /\ call' = [op |-> "fetch", mode |-> mode,
                    args |-> [url |-> "hebcal", params |-> ps, reply |-> r]]
        /\ sent' = <<ps>>
        /\ outcome' = Fetch(mode, "hebcal", ps, r)
        /\ UNCHANGED <<params, nmut, log, padded>>

NextFetch == CallFetch \/ Return

SpecFetch == Init /\ [][NextFetch]_vars

-----------------------------------------------------------------------------
(* C5: in fetch_sync and in fetch_async, a 404 whose JSON body's error     *)
(* message contains "can't find geonameid" raises InvalidGeoLocationError; *)
(* every other 4xx/5xx response raises FetchError carrying the URL and the *)
(* status code; a network failure raises FetchError; a successful response *)
(* returns the parsed body unchanged.                                      *)

IsGeoNotFound(r) ==
    /\ r.net = "ok" /\ r.status = 404
    /\ r.body.json = "object" /\ r.body.error.t = "str"
    /\ ContainsGeoMessage(r.body.error.s)

FetchContract(mode) ==
    (call.op = "fetch" /\ call.mode = mode) =>
        LET r == call.args.reply
        IN  /\ IsGeoNotFound(r) => outcome.exc = "InvalidGeoLocationError"
            /\ (r.net = "ok" /\ r.status >= 400 /\ ~IsGeoNotFound(r)) =>
                   /\ outcome.exc = "FetchError"
                   /\ outcome.val.url = ResolvedUrl(call.args.url, call.args.params)
                   /\ outcome.val.status = IntV(r.status)
            /\ r.net = "fail" => outcome.exc = "FetchError"
            /\ (r.net = "ok" /\ r.status < 400) => outcome = Ok(r.body)

\* C5 as claimed
C5_FetchErrorKinds == FetchContract("sync") /\ FetchContract("async")

-----------------------------------------------------------------------------
(* Dates.  A date text is a str whose d part is <<y, m, d, yw, mw, dw>>:   *)
(* the year, month and day it writes and the number of characters of each  *)
(* field, the fields joined by "-" ("2024-1-05" is <<2024, 1, 5, 4, 1, 2>>).*)
(* A datetime or date value has the d part <<y, m, d>>.                    *)

DateText(y, m, d, yw, mw, dw) == [t |-> "str", n |-> 0, s |-> "", d |-> <<y, m, d, yw, mw, dw>>]

DateTime(y, m, d) == [t |-> "datetime", n |-> 0, s |-> "", d |-> <<y, m, d>>]

Date(y, m, d) == [t |-> "date", n |-> 0, s |-> "", d |-> <<y, m, d>>]

IsLeap(y) == (y % 4 = 0 /\ y % 100 # 0) \/ y % 400 = 0

DaysInMonth(y, m) ==
    IF m = 2 THEN (IF IsLeap(y) THEN 29 ELSE 28)
    ELSE IF m \in {4, 6, 9, 11} THEN 30 ELSE 31

\* the number of decimal digits of a number below 10000
Digits(i) == IF i < 10 THEN 1 ELSE IF i < 100 THEN 2 ELSE IF i < 1000 THEN 3 ELSE 4

\* datetime.strptime(text, "%Y-%m-%d") succeeds: %Y is four digits, %m and %d
\* are one or two digits (a leading zero is optional), and the date exists
StrptimeOk(v) ==
    /\ v.t = "str" /\ Len(v.d) = 6
    /\ v.d[4] = 4 /\ v.d[1] \in 1..9999
    /\ v.d[5] \in {1, 2} /\ v.d[5] >= Digits(v.d[2]) /\ v.d[2] \in 1..12
    /\ v.d[6] \in {1, 2} /\ v.d[6] >= Digits(v.d[3])
    /\ v.d[3] \in 1..DaysInMonth(v.d[1], v.d[2])

\* the datetime strptime returns
Strptime(v) == DateTime(v.d[1], v.d[2], v.d[3])

\* dt.strftime("%Y-%m-%d"): month and day are zero-padded to two characters;
\* the C library decides whether a year below 1000 is written with four digits
Strftime(v) == DateText(v.d[1], v.d[2], v.d[3], IF padded THEN 4 ELSE Digits(v.d[1]), 2, 2)

\* date.toordinal(): the days from 0001-01-01, which is day 1
DaysBeforeYear(y) == (y - 1) * 365 + ((y - 1) \div 4) - ((y - 1) \div 100) + ((y - 1) \div 400)

RECURSIVE DaysBeforeMonth(_, _)
DaysBeforeMonth(y, m) ==
    IF m = 1 THEN 0 ELSE DaysBeforeMonth(y, m - 1) + DaysInMonth(y, m - 1)

ToOrdinal(v) == DaysBeforeYear(v.d[1]) + DaysBeforeMonth(v.d[1], v.d[2]) + v.d[3]

\* (b - a).days of two datetimes at midnight
DaysBetween(a, b) == ToOrdinal(b) - ToOrdinal(a)

StrptimeMsg == "time data does not match format '%Y-%m-%d'"

RangeWarning == "Date range > 180 days. Results will be truncated by the API."

FormatMsgCalendar == "Invalid datetime format '%Y-%m-%d' for parameter 'start' or 'end'"
FormatMsgType == "dt not provaided or not in the right type"

Calendar_format_datetime(dt) ==
    IF dt.t \in {"datetime", "date"} THEN Ok(Strftime(dt))
    ELSE IF dt.t = "str"
    THEN (IF StrptimeOk(dt) THEN Ok(Strptime(dt)) ELSE Raise("ValueError", FormatMsgCalendar))
    ELSE Raise("ValueError", FormatMsgType)

-----------------------------------------------------------------------------
(* Calendar: calendar.py *)

Calendar_ALLOWED_PARAMS ==
    {"v", "cfg", "year", "yt", "month", "ny", "start", "end",
     "geonameid", "zip", "latitude", "longitude", "tzid", "city",
     "maj", "yto", "min", "nx", "mf", "ss", "mod", "s", "leyning",
     "D", "d", "o", "ykk", "molad", "yzkr", "mvch",
     "i", "c", "b", "m", "M",
     "F", "dw", "yyomi", "yys", "myomi", "nyomi",
     "dty", "dps", "dr1", "dr3", "dsm", "dksa", "ahsy",
     "dcc", "dshl", "dpa", "hdp", "lg"}

\* _merge_params of every client but Yahrzeit: stored is self.params, extra a
\* sequence of <<key, value>> pairs in the order of the dict, allowed the
\* client's allow-list.  The error names the first key that is not allowed.
RECURSIVE MergeLoop(_, _, _)
MergeLoop(merged, extra, allowed) ==
    IF extra = <<>> THEN Ok(merged)
    ELSE IF Head(extra)[1] \notin allowed
    THEN Raise("ValueError", Head(extra)[1])
    ELSE MergeLoop(DictSet(merged, Head(extra)[1], Head(extra)[2]), Tail(extra), allowed)

MergeParams(stored, extra, allowed) == MergeLoop(stored, extra, allowed)

Calendar_merge_params(stored, extra) == MergeParams(stored, extra, Calendar_ALLOWED_PARAMS)

\* a str that int() refuses: one that is not the decimal numeral of a number
NoNumeral(v) == v.t = "str" /\ v.s # "str(int)"

\* int(month) of a month that int() takes: a number, or the numeral of one
MonthInt(month) == month.n

\* `month != "x" and not (1 <= int(month) <= 12)`, for a month int() takes
MonthRule(month) == month # StrV("x") /\ ~(MonthInt(month) \in 1..12)

Calendar_validate_date_params(start, end, year, yt, month, ny) ==
    IF year # None /\ (Truthy(start) \/ Truthy(end))
    THEN Raise("ValueError", "Cannot specify both 'year' and 'start/end'. Choose one method.")
    ELSE IF year # None
    THEN IF Truthy(yt) /\ yt \notin {StrV("G"), StrV("H")}
         THEN Raise("ValueError", "yt must be 'G' or 'H'")
         ELSE IF Truthy(month) /\ month # StrV("x") /\ NoNumeral(month)
         THEN Raise("ValueError", "invalid literal for int() with base 10")
         ELSE IF Truthy(month) /\ MonthRule(month)
         THEN Raise("ValueError", "month must be 'x' or 1-12")
         ELSE IF ny # None /\ ny.n < 1
         THEN Raise("ValueError", "ny must be >= 1")
         ELSE Ok(<<<<"year", year>>>>
                 \o (IF Truthy(yt) THEN <<<<"yt", yt>>>> ELSE <<>>)
                 \o (IF Truthy(month) THEN <<<<"month", month>>>> ELSE <<>>)
                 \o (IF ny # None THEN <<<<"ny", ny>>>> ELSE <<>>))
    ELSE IF Truthy(start) /\ Truthy(end)
    THEN LET s1 == Calendar_format_datetime(start)
             e1 == Calendar_format_datetime(end)
         IN  IF s1.kind = "raise" THEN s1
             ELSE IF e1.kind = "raise" THEN e1
             ELSE Ok(<<<<"start", s1.val>>, <<"end", e1.val>>>>)
    ELSE Raise("ValueError", "Provide either 'start' and 'end' (str, date, datetime) or a 'year'.")

\* the dict event_flags of _parse_params, in its order: the wire code of each
\* boolean parameter of get_events ("lg", its last key, is the language)
EventFlags ==
    <<"maj", "yto", "min", "nx", "mf", "ss", "mod", "s", "leyning",
      "D", "d", "o", "ykk", "molad", "yzkr", "mvch", "c",
      "F", "dw", "yyomi", "yys", "myomi", "nyomi",
      "dty", "dps", "dr1", "dr3", "dsm", "dksa", "ahsy", "dcc", "dshl",
      "dpa", "hdp">>

EventFlagCodes == {EventFlags[i] : i \in 1..Len(EventFlags)}

\* the boolean parameters of get_events, each named by its wire code:
\* havdalah_at_nightfall ("M") and the parameters of event_flags
ToggleCodes == EventFlagCodes \cup {"M"}

\* a dict as the sequence of its items, the keys in the given order
RECURSIVE Items(_, _)
Items(m, order) ==
    IF order = <<>> THEN <<>>
    ELSE (IF Head(order) \in DOMAIN m THEN <<<<Head(order), m[Head(order)]>>>> ELSE <<>>)
         \o Items(m, Tail(order))

\* a variant of the loop that sends "off" for a toggle that is False
FlagItemsOnOff(codes, on) ==
    [i \in 1..Len(codes) |->
        <<codes[i], IF codes[i] \in on THEN StrV("on") ELSE StrV("off")>>]

\* the loop over event_flags: a true toggle becomes "on", the language is
\* passed through unless it is None
RECURSIVE FlagItems(_, _)
FlagItems(codes, on) ==
    IF codes = <<>> THEN <<>>
    ELSE (IF Head(codes) \in on THEN <<<<Head(codes), StrV("on")>>>> ELSE <<>>)
         \o FlagItems(Tail(codes), on)

\* a.on is the set of the boolean parameters that are True
Calendar_parse_params(a) ==
    LET dates == Calendar_validate_date_params(a.start, a.end, a.year, a.year_type,
                                               a.month, a.number_of_years)
        loc == ValidateLocation(a)
    IN  IF dates.kind = "raise" THEN dates
        ELSE IF loc.kind = "raise" THEN loc
        ELSE IF a.b # None /\ a.b.n < 0
        THEN Raise("ValueError", "candle_lighting_minutes_before_sunset must be >= 0")
        ELSE IF a.m # None /\ a.m.n < 0
        THEN Raise("ValueError", "havdalah_minutes_after_sunset must be >= 0")
        ELSE Ok(dates.val
                \o Items(loc.val, <<"geonameid", "zip", "latitude", "longitude", "tzid", "city">>)
                \o (IF a.israel # None
                    THEN <<<<"i", IF Truthy(a.israel) THEN StrV("on") ELSE StrV("off")>>>>
                    ELSE <<>>)
                \o (IF a.b # None THEN <<<<"b", a.b>>>> ELSE <<>>)
                \o (IF a.m # None THEN <<<<"m", a.m>>>> ELSE <<>>)
                \o (IF "M" \in a.on THEN <<<<"M", StrV("on")>>>> ELSE <<>>)
                \o FlagItems(EventFlags, a.on)
                \o (IF a.language # None THEN <<<<"lg", a.language>>>> ELSE <<>>))

\* what a completed request is: the mappings sent and the result
Done(s, o) == [sent |-> s, outcome |-> o]

\* a variant that wraps whatever the transport returned
Calendar_get_calendar_unchecked(mode, stored, extra, r) ==
    LET merged == Calendar_merge_params(stored, extra)
        data == Fetch(mode, "hebcal", merged.val, r)
    IN  IF merged.kind = "raise" THEN Done(<<>>, merged)
        ELSE IF data.kind = "raise" THEN Done(<<merged.val>>, data)
        ELSE Done(<<merged.val>>, Ok([class |-> "CalendarResponse", raw |-> data.val]))

\* _get_calendar_sync and _get_calendar_async
Calendar_get_calendar(mode, stored, extra, r) ==
    LET merged == Calendar_merge_params(stored, extra)
        data == Fetch(mode, "hebcal", merged.val, r)
    IN  IF merged.kind = "raise" THEN Done(<<>>, merged)
        ELSE IF data.kind = "raise" THEN Done(<<merged.val>>, data)
        ELSE IF data.val.json # "object"
        THEN Done(<<merged.val>>, Raise("ValueError", "Invalid response data format from Hebcal API"))
        ELSE Done(<<merged.val>>, Ok([class |-> "CalendarResponse", raw |-> data.val]))

\* get_events and get_events_async
Calendar_get_events(mode, stored, a, r) ==
    LET parsed == Calendar_parse_params(a)
    IN  IF parsed.kind = "raise" THEN Done(<<>>, parsed)
        ELSE Calendar_get_calendar(mode, stored, parsed.val, r)

\* the replies an endpoint call is answered with
EndpointReplies ==
    { [net |-> "ok", status |-> 200, body |-> Body("object", 1, Missing)],
      [net |-> "ok", status |-> 200, body |-> Body("array", 2, Missing)],
      [net |-> "ok", status |-> 404, body |-> Body("object", 1, StrV(GeoMessage))],
      [net |-> "ok", status |-> 500, body |-> Body("invalid", 0, Missing)],
      NetworkFailure }

\* the sets of at most k of the given codes
RECURSIVE SetsUpTo(_, _)
SetsUpTo(codes, k) ==
    IF k = 0 THEN {{}}
    ELSE LET smaller == SetsUpTo(codes, k - 1)
         IN  smaller \cup {S \cup {c} : S \in smaller, c \in codes}

\* at most MaxToggles boolean parameters are True in one call, or all of them
MaxToggles == 1

ToggleSets == SetsUpTo(ToggleCodes, MaxToggles) \cup {ToggleCodes}

\* the date arguments of get_events
EventDateArgs ==
    { [start |-> None, end |-> None, year |-> IntV(2024), year_type |-> None,
       month |-> None, number_of_years |-> None],
      [start |-> None, end |-> None, year |-> IntV(2024), year_type |-> StrV("H"),
       month |-> IntV(1), number_of_years |-> IntV(2)],
      [start |-> DateText(2024, 1, 15, 4, 2, 2), end |-> DateTime(2024, 2, 15),
       year |-> None, year_type |-> None, month |-> None, number_of_years |-> None],
      [start |-> StrV("15/01/2024"), end |-> DateText(2024, 2, 15, 4, 2, 2),
       year |-> None, year_type |-> None, month |-> None, number_of_years |-> None],
      [start |-> DateText(2024, 1, 15, 4, 2, 2), end |-> None, year |-> IntV(2024),
       year_type |-> None, month |-> None, number_of_years |-> None],
      [start |-> None, end |-> None, year |-> None, year_type |-> None,
       month |-> None, number_of_years |-> None] }

NoLocation ==
    [geonameid |-> None, zip_code |-> None, latitude |-> None, longitude |-> None,
     timezone_id |-> None, city_name |-> None]

\* the location arguments of get_events
EventLocationArgs ==
    { NoLocation,
      [NoLocation EXCEPT !.geonameid = IntV(281184)],
      [NoLocation EXCEPT !.zip_code = StrV("12345")],
      [NoLocation EXCEPT !.latitude = FloatV(31), !.longitude = FloatV(35),
                         !.timezone_id = StrV("Asia/Jerusalem")],
      [NoLocation EXCEPT !.latitude = FloatV(0), !.longitude = FloatV(0),
                         !.timezone_id = StrV("Asia/Jerusalem")],
      [NoLocation EXCEPT !.city_name = StrV("Jerusalem")],
      [NoLocation EXCEPT !.geonameid = IntV(281184), !.city_name = StrV("Jerusalem")],
      [NoLocation EXCEPT !.geonameid = IntV(281184), !.latitude = FloatV(0)],
      [NoLocation EXCEPT !.latitude = FloatV(31), !.longitude = FloatV(35)] }

NoOptions == [israel |-> None, b |-> None, m |-> None, language |-> None]

\* the Israel flag, the minutes and the language of get_events: at most one of
\* them is given in one call
EventOptionArgs ==
    {NoOptions}
    \cup {[NoOptions EXCEPT !.israel = BoolV(x)] : x \in BOOLEAN}
    \cup {[NoOptions EXCEPT !.b = IntV(x)] : x \in {-1, 0, 18}}
    \cup {[NoOptions EXCEPT !.m = IntV(x)] : x \in {-1, 0, 42}}
    \cup {[NoOptions EXCEPT !.language = StrV("he")]}

\* two records as one
Join(f, g) == [k \in (DOMAIN f) \cup (DOMAIN g) |-> IF k \in DOMAIN f THEN f[k] ELSE g[k]]

\* the options and the toggles of one call: the toggles vary with the options
\* left out, the options vary with every toggle False
EventOptionToggleArgs ==
    {Join(NoOptions, [on |-> on]) : on \in ToggleSets}
    \cup {Join(oa, [on |-> {}]) : oa \in EventOptionArgs}

\* the reply of a call that never reached the transport
NoReply == [net |-> "unused", status |-> 0, body |-> Body("invalid", 0, Missing)]

\* the replies a call may get: none when its validation failed
RepliesFor(validated) == IF validated.kind = "raise" THEN {NoReply} ELSE EndpointReplies

CallGetEvents ==
    /\ Idle
    /\ \E mode \in Modes, da \in EventDateArgs, la \in EventLocationArgs,
          oa \in EventOptionToggleArgs :
        LET a == Join(Join(da, la), oa)
        IN  \E r \in RepliesFor(Calendar_parse_params(a)) :
                LET done == Calendar_get_events(mode, params["calendar"], a, r)
                IN  /\ call' = [op |-> "get_events", mode |-> mode, args |-> a, reply |-> r]
                    /\ sent' = done.sent
                    /\ outcome' = done.outcome
                    /\ UNCHANGED <<params, nmut, log, padded>>

NextEvents == CallGetEvents \/ Return

SpecEvents == Init /\ [][NextEvents]_vars

-----------------------------------------------------------------------------
(* Shabat: shabat.py *)

Shabat_ALLOWED_PARAMS ==
    {"b", "M", "m", "leyning", "gy", "gm", "gd", "hdp", "lg",
     "geonameid", "latitude", "longitude"}

Shabat_merge_params(stored, extra) == MergeParams(stored, extra, Shabat_ALLOWED_PARAMS)

\* the number of location methods _parse_params counts
ShabatLocationProvided(a) ==
    (IF a.geonameid # None THEN 1 ELSE 0)
    + (IF a.latitude # None \/ a.longitude # None THEN 1 ELSE 0)

Shabat_parse_params(stored, a) ==
    IF a.geonameid # None /\ (a.geonameid.t \notin {"int", "bool"} \/ a.geonameid.n <= 0)
    THEN Raise("ValueError", LocationMsgGeo)
    ELSE IF (a.latitude # None \/ a.longitude # None)
            /\ (a.latitude = None \/ a.longitude = None)
    THEN Raise("ValueError", "Both latitude and longitude must be provided together")
    ELSE IF ShabatLocationProvided(a) = 0
    THEN Raise("ValueError", "You must provide at least one location: geonameid or latitude+longitude")
    ELSE IF ShabatLocationProvided(a) > 1
    THEN Raise("ValueError", "Provide only one location method: geonameid OR latitude+longitude")
    ELSE IF a.candle_lighting /\ a.b # None /\ a.b.n < 0
    THEN Raise("ValueError", "candle_lighting_minutes_before_sunset must be >= 0")
    ELSE IF a.m # None /\ a.m.n < 0
    THEN Raise("ValueError", "havdalah_minutes_after_sunset must be >= 0")
    ELSE Shabat_merge_params(stored,
            (IF a.geonameid # None THEN <<<<"geonameid", a.geonameid>>>> ELSE <<>>)
            \o (IF a.latitude # None
                THEN <<<<"latitude", a.latitude>>, <<"longitude", a.longitude>>>> ELSE <<>>)
            \o (IF a.candle_lighting /\ a.b # None THEN <<<<"b", a.b>>>> ELSE <<>>)
            \o (IF a.m # None THEN <<<<"m", a.m>>>> ELSE <<>>)
            \o (IF a.havdalah_at_nightfall THEN <<<<"M", StrV("on")>>>> ELSE <<>>)
            \o (IF a.leyning THEN <<<<"leyning", StrV("on")>>>> ELSE <<>>)
            \o (IF Truthy(a.language) THEN <<<<"lg", a.language>>>> ELSE <<>>))

\* a mapper called with the keyword arguments url= and params=, which it does
\* not take
UnexpectedKeyword == Raise("TypeError", "got an unexpected keyword argument 'url'")

\* get_shabbat and get_shabbat_async: CalendarResponse.__init__ takes the data
\* alone
Shabat_get_shabbat(mode, stored, a, r) ==
    LET ps == Shabat_parse_params(stored, a)
        data == Fetch(mode, "shabbat", ps.val, r)
    IN  IF ps.kind = "raise" THEN Done(<<>>, ps)
        ELSE IF data.kind = "raise" THEN Done(<<ps.val>>, data)
        ELSE Done(<<ps.val>>, UnexpectedKeyword)

-----------------------------------------------------------------------------
(* Leyning: leyning.py *)

Leyning_ALLOWED_PARAMS == {"date", "start", "end", "i", "triennial"}

Leyning_merge_params(stored, extra) == MergeParams(stored, extra, Leyning_ALLOWED_PARAMS)

Leyning_format_datetime(dt) ==
    IF dt.t \in {"datetime", "date"} THEN Ok(Strftime(dt))
    ELSE IF dt.t = "str"
    THEN (IF StrptimeOk(dt) THEN Ok(dt) ELSE Raise("ValueError", FormatMsgCalendar))
    ELSE Raise("ValueError", FormatMsgType)

DatesMsg == "You must provide either a single 'date' or both 'start' and 'end'"

\* the range test parses the two formatted texts again, the end first
Leyning_validate_dates(date, start, end) ==
    IF Truthy(date)
    THEN LET d1 == Leyning_format_datetime(date)
         IN  IF d1.kind = "raise" THEN d1 ELSE Ok(<<<<"date", d1.val>>>>)
    ELSE IF ~Truthy(start) \/ ~Truthy(end)
    THEN Raise("ValueError", DatesMsg)
    ELSE LET s1 == Leyning_format_datetime(start)
             e1 == Leyning_format_datetime(end)
         IN  IF s1.kind = "raise" THEN s1
             ELSE IF e1.kind = "raise" THEN e1
             ELSE IF ~StrptimeOk(e1.val) \/ ~StrptimeOk(s1.val)
             THEN Raise("ValueError", StrptimeMsg)
             ELSE Ok(<<<<"start", s1.val>>, <<"end", e1.val>>>>)

\* what _validate_dates writes to the logger
Leyning_warnings(date, start, end) ==
    IF Truthy(date) \/ Leyning_validate_dates(date, start, end).kind = "raise" THEN <<>>
    ELSE IF DaysBetween(Strptime(Leyning_format_datetime(start).val),
                        Strptime(Leyning_format_datetime(end).val)) > 180
    THEN <<RangeWarning>>
    ELSE <<>>

Leyning_prepare_params(stored, a) ==
    LET dates == Leyning_validate_dates(a.date, a.start, a.end)
    IN  IF dates.kind = "raise" THEN dates
        ELSE Leyning_merge_params(stored,
                dates.val
                \o <<<<"i", IF Truthy(a.diaspora) THEN StrV("on") ELSE StrV("off")>>,
                     <<"triennial", IF Truthy(a.triennial) THEN StrV("on") ELSE StrV("off")>>>>)

\* get_leyning and get_leyning_async: LeyningResponse.from_dict takes the data
\* alone
Leyning_get_leyning(mode, stored, a, r) ==
    LET ps == Leyning_prepare_params(stored, a)
        data == Fetch(mode, "leyning", ps.val, r)
    IN  IF ps.kind = "raise" THEN Done(<<>>, ps)
        ELSE IF data.kind = "raise" THEN Done(<<ps.val>>, data)
        ELSE Done(<<ps.val>>, UnexpectedKeyword)

-----------------------------------------------------------------------------
(* Zmanim: zmanim.py *)

Zmanim_ALLOWED_PARAMS ==
    {"date", "start", "end", "geonameid", "latitude", "longitude", "sec", "elevation"}

Zmanim_merge_params(stored, extra) == MergeParams(stored, extra, Zmanim_ALLOWED_PARAMS)

\* set_param of Zmanim and Converter: the stored mapping after the call, or the
\* error
SetParam(stored, key, value, allowed) ==
    IF key \notin allowed THEN Raise("ValueError", key)
    ELSE IF value = None THEN Ok(DictPop(stored, key))
    ELSE Ok(DictSet(stored, key, value))

Zmanim_set_param(stored, key, value) == SetParam(stored, key, value, Zmanim_ALLOWED_PARAMS)

Zmanim_format_datetime(dt) ==
    IF dt.t = "datetime" THEN Ok(Strftime(dt))
    ELSE IF dt.t = "str"
    THEN (IF StrptimeOk(dt) THEN Ok(dt)
          ELSE Raise("ValueError", "Invalid datetime format, must be 'YYYY-MM-DD'"))
    ELSE Raise("TypeError", "Date parameters must be either str or datetime")

\* the range test parses the two formatted texts again, the start first
Zmanim_validate_dates(date, start, end) ==
    IF Truthy(date)
    THEN LET d1 == Zmanim_format_datetime(date)
         IN  IF d1.kind = "raise" THEN d1 ELSE Ok(<<<<"date", d1.val>>>>)
    ELSE IF ~Truthy(start) \/ ~Truthy(end)
    THEN Raise("ValueError", DatesMsg)
    ELSE LET s1 == Zmanim_format_datetime(start)
             e1 == Zmanim_format_datetime(end)
         IN  IF s1.kind = "raise" THEN s1
             ELSE IF e1.kind = "raise" THEN e1
             ELSE IF ~StrptimeOk(s1.val) \/ ~StrptimeOk(e1.val)
             THEN Raise("ValueError", StrptimeMsg)
             ELSE Ok(<<<<"start", s1.val>>, <<"end", e1.val>>>>)

\* what _validate_dates writes to the logger
Zmanim_warnings(date, start, end) ==
    IF Truthy(date) \/ Zmanim_validate_dates(date, start, end).kind = "raise" THEN <<>>
    ELSE IF DaysBetween(Strptime(Zmanim_format_datetime(start).val),
                        Strptime(Zmanim_format_datetime(end).val)) > 180
    THEN <<RangeWarning>>
    ELSE <<>>

Zmanim_prepare_params(stored, a) ==
    LET dates == Zmanim_validate_dates(a.date, a.start, a.end)
    IN  IF dates.kind = "raise" THEN dates
        ELSE IF (a.latitude # None \/ a.longitude # None)
                /\ ~(a.latitude # None /\ a.longitude # None)
        THEN Raise("ValueError", "Both latitude and longitude must be provided together")
        ELSE Zmanim_merge_params(stored,
                dates.val
                \o (IF a.geonameid # None THEN <<<<"geonameid", a.geonameid>>>> ELSE <<>>)
                \o (IF a.latitude # None /\ a.longitude # None
                    THEN <<<<"latitude", a.latitude>>, <<"longitude", a.longitude>>>> ELSE <<>>)
                \o (IF Truthy(a.sec) THEN <<<<"sec", IntV(1)>>>> ELSE <<>>)
                \o (IF Truthy(a.elevation) THEN <<<<"elevation", IntV(1)>>>> ELSE <<>>))

\* ZmanimResponse.from_api indexes date, version and location of the data: an
\* object reply with members carries them, an empty object does not, and a
\* list is not indexed by a str
ZmanimResponse_from_api(data) ==
    IF data.json # "object" THEN Raise("TypeError", "list indices must be integers")
    ELSE IF data.n = 0 THEN Raise("KeyError", "date")
    ELSE Ok([class |-> "ZmanimResponse", raw |-> data])

\* get_zmanim and get_zmanim_async
Zmanim_get_zmanim(mode, stored, a, r) ==
    LET ps == Zmanim_prepare_params(stored, a)
        data == Fetch(mode, "zmanim", ps.val, r)
    IN  IF ps.kind = "raise" THEN Done(<<>>, ps)
        ELSE IF data.kind = "raise" THEN Done(<<ps.val>>, data)
        ELSE Done(<<ps.val>>, ZmanimResponse_from_api(data.val))

-----------------------------------------------------------------------------
(* Converter: converter.py *)

Converter_ALLOWED_PARAMS ==
    {"cfg", "date", "start", "end", "g2h", "h2g", "strict", "gs",
     "gy", "gm", "gd", "hy", "hm", "hd", "ndays", "lg", "callback"}

Converter_set_param(stored, key, value) ==
    SetParam(stored, key, value, Converter_ALLOWED_PARAMS)

Converter_merge_params(stored, extra) ==
    MergeParams(stored, extra, Converter_ALLOWED_PARAMS)

Converter_format_date(dt) ==
    IF dt.t = "datetime" THEN Ok(Strftime(dt))
    ELSE IF dt.t = "str"
    THEN (IF StrptimeOk(dt) THEN Ok(dt)
          ELSE Raise("ValueError", StrptimeMsg))
    ELSE Raise("TypeError", "Date must be str or datetime")

\* 1 if strict else 0
Flag01(b) == IF Truthy(b) THEN IntV(1) ELSE IntV(0)

\* the mapping of the range operations: ConverterResponse.from_api is called
\* with url= and params= on every item of the data
ConverterRangeMap(data) ==
    IF data.json \in {"object", "array"} /\ data.n = 0
    THEN Ok([class |-> "list", raw |-> data])
    ELSE UnexpectedKeyword

\* a request of the converter: the parameters built (or the error), then the
\* fetch, then the mapping of the data
ConverterRequest(mode, ps, r, range) ==
    LET data == Fetch(mode, "converter", ps.val, r)
    IN  IF ps.kind = "raise" THEN Done(<<>>, ps)
        ELSE IF data.kind = "raise" THEN Done(<<ps.val>>, data)
        ELSE IF range THEN Done(<<ps.val>>, ConverterRangeMap(data.val))
        ELSE Done(<<ps.val>>, UnexpectedKeyword)

\* g2h_single and g2h_single_async
Converter_g2h_single(mode, stored, a, r) ==
    LET date == Converter_format_date(a.date)
        merged == Converter_merge_params(stored,
                    <<<<"date", date.val>>, <<"g2h", IntV(1)>>, <<"strict", Flag01(a.strict)>>>>)
        ps == IF date.kind = "raise" THEN date
              ELSE IF merged.kind = "raise" THEN merged
              ELSE IF Truthy(a.after_sunset) THEN Ok(DictSet(merged.val, "gs", StrV("on")))
              ELSE merged
    IN  ConverterRequest(mode, ps, r, FALSE)

Converter_g2h_range(mode, stored, a, r) ==
    LET start == Converter_format_date(a.start)
        end == Converter_format_date(a.end)
        ps == IF start.kind = "raise" THEN start
              ELSE IF end.kind = "raise" THEN end
              ELSE Converter_merge_params(stored,
                    <<<<"start", start.val>>, <<"end", end.val>>, <<"g2h", IntV(1)>>>>)
    IN  ConverterRequest(mode, ps, r, TRUE)

\* h2g_single and h2g_single_async
Converter_h2g_single(mode, stored, a, r) ==
    ConverterRequest(mode,
        Converter_merge_params(stored,
            <<<<"hy", a.year>>, <<"hm", a.month>>, <<"hd", a.day>>, <<"h2g", IntV(1)>>,
              <<"strict", Flag01(a.strict)>>>>),
        r, FALSE)

Converter_h2g_range(mode, stored, a, r) ==
    ConverterRequest(mode,
        IF a.ndays.n < 2 \/ a.ndays.n > 180
        THEN Raise("ValueError", "ndays must be between 2 and 180")
        ELSE Converter_merge_params(stored,
            <<<<"hy", a.year>>, <<"hm", a.month>>, <<"hd", a.day>>, <<"h2g", IntV(1)>>,
              <<"ndays", a.ndays>>, <<"strict", Flag01(a.strict)>>>>),
        r, TRUE)

-----------------------------------------------------------------------------
(* Yahrzeit: yahrzeit.py *)

Yahrzeit_ALLOWED_PARAMS ==
    {"cfg", "v", "years", "hebdate", "yizkor", "i", "start", "end", "hdp"}

FieldLetters == {"y", "m", "d", "s", "t", "n"}

\* f"{letter}{index}" for the indexes 0, 1 and 2
IndexedKeys ==
    [y |-> <<"y0", "y1", "y2">>, m |-> <<"m0", "m1", "m2">>, d |-> <<"d0", "d1", "d2">>,
     s |-> <<"s0", "s1", "s2">>, t |-> <<"t0", "t1", "t2">>, n |-> <<"n0", "n1", "n2">>]

IndexedKey(letter, index) == IndexedKeys[letter][index + 1]

\* key[0] of the keys that are not in the allow-list; "" has none
FirstChar(key) ==
    CASE key \in {"y0", "y1", "y2"} -> "y"
      [] key \in {"m0", "m1", "m2"} -> "m"
      [] key \in {"d0", "d1", "d2", "date"} -> "d"
      [] key \in {"s0", "s1", "s2"} -> "s"
      [] key \in {"t0", "t1", "t2"} -> "t"
      [] key \in {"n0", "n1", "n2", "name"} -> "n"
      [] key = "x1" -> "x"
      [] key = "geonameid" -> "g"

\* the key test of set_param and _merge_params: "pass", "invalid", or "index"
\* for the IndexError of key[0] on the empty key
YahrzeitKeyTest(key) ==
    IF key \in Yahrzeit_ALLOWED_PARAMS THEN "pass"
    ELSE IF key = "" THEN "index"
    ELSE IF FirstChar(key) \in FieldLetters THEN "pass"
    ELSE "invalid"

Yahrzeit_set_param(stored, key, value) ==
    IF YahrzeitKeyTest(key) = "index" THEN Raise("IndexError", "string index out of range")
    ELSE IF YahrzeitKeyTest(key) = "invalid" THEN Raise("ValueError", key)
    ELSE IF value = None THEN Ok(DictPop(stored, key))
    ELSE Ok(DictSet(stored, key, value))

EventTypes == {"Yahrzeit", "Birthday", "Anniversary"}

\* str(n) of an int: the str whose text is the decimal numeral of n
Str(v) == [t |-> "str", n |-> v.n, s |-> "str(int)", d |-> NoDate]

\* name.replace(" ", "+")
ReplaceSpaces(name) ==
    CASE name.s = "Sara" -> StrV("Sara")
      [] name.s = "Sara Cohen" -> StrV("Sara+Cohen")

Yahrzeit_add_event(stored, a) ==
    IF a.event_type \notin EventTypes
    THEN Raise("ValueError", "event_type must be one of 'Yahrzeit', 'Birthday', or 'Anniversary'")
    ELSE LET p1 == DictSet(stored, IndexedKey("y", a.index), Str(a.year))
             p2 == DictSet(p1, IndexedKey("m", a.index), Str(a.month))
             p3 == DictSet(p2, IndexedKey("d", a.index), Str(a.day))
             p4 == IF a.after_sunset THEN DictSet(p3, IndexedKey("s", a.index), StrV("on"))
                   ELSE p3
             p5 == DictSet(p4, IndexedKey("t", a.index), StrV(a.event_type))
         IN  IF Truthy(a.name)
             THEN Ok(DictSet(p5, IndexedKey("n", a.index), ReplaceSpaces(a.name)))
             ELSE Ok(p5)

RECURSIVE YahrzeitMergeLoop(_, _)
YahrzeitMergeLoop(merged, extra) ==
    IF extra = <<>> THEN Ok(merged)
    ELSE IF YahrzeitKeyTest(Head(extra)[1]) = "index"
    THEN Raise("IndexError", "string index out of range")
    ELSE IF YahrzeitKeyTest(Head(extra)[1]) = "invalid"
    THEN Raise("ValueError", Head(extra)[1])
    ELSE YahrzeitMergeLoop(DictSet(merged, Head(extra)[1], Head(extra)[2]), Tail(extra))

Yahrzeit_merge_params(stored, extra) == YahrzeitMergeLoop(stored, extra)

\* get_yahrzeit and get_yahrzeit_async: YahrzeitResponse.from_api takes the
\* data alone
Yahrzeit_get_yahrzeit(mode, stored, extra, r) ==
    LET ps == Yahrzeit_merge_params(stored, extra)
        data == Fetch(mode, "yahrzeit", ps.val, r)
    IN  IF ps.kind = "raise" THEN Done(<<>>, ps)
        ELSE IF data.kind = "raise" THEN Done(<<ps.val>>, data)
        ELSE Done(<<ps.val>>, UnexpectedKeyword)

-----------------------------------------------------------------------------
(* The six clients together: the arguments each operation is called with,  *)
(* the mutators of the stored parameters and the requests.                 *)

\* the most set_param and add_event calls of a run
MaxMutations == 1

ValidText == DateText(2024, 1, 15, 4, 2, 2)
LaterText == DateText(2024, 2, 15, 4, 2, 2)
BadText == DateText(2024, 13, 1, 4, 2, 2)

\* the arguments of get_events next to the other clients
YearArgs ==
    { [start |-> None, end |-> None, year |-> y, year_type |-> None,
       month |-> None, number_of_years |-> None] : y \in {None, IntV(2024)} }

FewLocationArgs ==
    { NoLocation,
      [NoLocation EXCEPT !.geonameid = IntV(281184)],
      [NoLocation EXCEPT !.geonameid = IntV(281184), !.city_name = StrV("Jerusalem")],
      [NoLocation EXCEPT !.geonameid = IntV(281184), !.latitude = FloatV(0)] }

FewOptionArgs ==
    { Join(NoOptions, [on |-> {}]), Join(NoOptions, [on |-> {"maj"}]),
      Join([NoOptions EXCEPT !.b = IntV(-1)], [on |-> {}]) }

FewEventArgs ==
    { Join(Join(da, la), oa) : da \in YearArgs, la \in FewLocationArgs, oa \in FewOptionArgs }

\* the defaults of get_shabbat
ShabatDefaults ==
    [geonameid |-> None, latitude |-> None, longitude |-> None,
     candle_lighting |-> TRUE, b |-> IntV(18), m |-> IntV(42),
     havdalah_at_nightfall |-> FALSE, leyning |-> FALSE, language |-> None]

ShabatArgs ==
    { ShabatDefaults,
      [ShabatDefaults EXCEPT !.geonameid = IntV(281184)],
      [ShabatDefaults EXCEPT !.geonameid = IntV(0)],
      [ShabatDefaults EXCEPT !.latitude = FloatV(0), !.longitude = FloatV(0)],
      [ShabatDefaults EXCEPT !.latitude = FloatV(31)],
      [ShabatDefaults EXCEPT !.geonameid = IntV(281184), !.latitude = FloatV(31),
                             !.longitude = FloatV(35)],
      [ShabatDefaults EXCEPT !.geonameid = IntV(281184), !.b = IntV(-1)],
      [ShabatDefaults EXCEPT !.geonameid = IntV(281184), !.b = IntV(-1),
                             !.candle_lighting = FALSE],
      [ShabatDefaults EXCEPT !.geonameid = IntV(281184), !.m = IntV(-1)],
      [ShabatDefaults EXCEPT !.geonameid = IntV(281184), !.b = None, !.m = None,
                             !.havdalah_at_nightfall = TRUE, !.leyning = TRUE,
                             !.language = StrV("he")] }

\* the defaults of get_leyning
LeyningDefaults ==
    [date |-> None, start |-> None, end |-> None,
     diaspora |-> BoolV(FALSE), triennial |-> BoolV(TRUE)]

LeyningArgs ==
    { LeyningDefaults,
      [LeyningDefaults EXCEPT !.date = ValidText],
      [LeyningDefaults EXCEPT !.date = Date(2024, 1, 15), !.diaspora = BoolV(TRUE),
                              !.triennial = BoolV(FALSE)],
      [LeyningDefaults EXCEPT !.date = BadText],
      [LeyningDefaults EXCEPT !.date = IntV(20240115)],
      [LeyningDefaults EXCEPT !.start = ValidText],
      [LeyningDefaults EXCEPT !.start = ValidText, !.end = LaterText],
      [LeyningDefaults EXCEPT !.date = ValidText, !.start = ValidText, !.end = LaterText] }

\* the defaults of get_zmanim
ZmanimDefaults ==
    [date |-> None, start |-> None, end |-> None, geonameid |-> None,
     latitude |-> None, longitude |-> None, sec |-> BoolV(FALSE), elevation |-> BoolV(FALSE)]

ZmanimArgs ==
    { ZmanimDefaults,
      [ZmanimDefaults EXCEPT !.date = ValidText],
      [ZmanimDefaults EXCEPT !.date = ValidText, !.geonameid = IntV(281184)],
      [ZmanimDefaults EXCEPT !.date = DateTime(2024, 1, 15), !.latitude = FloatV(31),
                             !.longitude = FloatV(35), !.sec = BoolV(TRUE),
                             !.elevation = BoolV(TRUE)],
      [ZmanimDefaults EXCEPT !.date = ValidText, !.latitude = FloatV(31)],
      [ZmanimDefaults EXCEPT !.date = ValidText, !.geonameid = IntV(281184),
                             !.latitude = FloatV(31), !.longitude = FloatV(35)],
      [ZmanimDefaults EXCEPT !.date = BadText, !.geonameid = IntV(281184)],
      [ZmanimDefaults EXCEPT !.date = Date(2024, 1, 15), !.geonameid = IntV(281184)],
      [ZmanimDefaults EXCEPT !.start = ValidText, !.end = LaterText,
                             !.geonameid = IntV(281184)],
      [ZmanimDefaults EXCEPT !.end = LaterText, !.geonameid = IntV(281184)] }

G2hSingleArgs ==
    { [date |-> d, after_sunset |-> BoolV(gs), strict |-> BoolV(st)] :
        d \in {ValidText, DateTime(2024, 1, 15), BadText, Date(2024, 1, 15)},
        gs \in BOOLEAN, st \in {TRUE} }
    \cup {[date |-> ValidText, after_sunset |-> BoolV(FALSE), strict |-> BoolV(FALSE)]}

G2hRangeArgs ==
    { [start |-> ValidText, end |-> LaterText],
      [start |-> DateTime(2024, 1, 15), end |-> DateTime(2024, 2, 15)],
      [start |-> ValidText, end |-> BadText],
      [start |-> None, end |-> LaterText] }

H2gSingleArgs ==
    { [year |-> IntV(5785), month |-> StrV("Nisan"), day |-> IntV(15), strict |-> BoolV(st)] :
        st \in BOOLEAN }

NdaysArgs == {IntV(1), IntV(2), IntV(30), IntV(180), IntV(181)}

H2gRangeArgs ==
    { [year |-> IntV(5785), month |-> StrV("Nisan"), day |-> IntV(15), ndays |-> nd,
       strict |-> BoolV(TRUE)] : nd \in NdaysArgs }

\* the extra parameters of get_yahrzeit and of the private _get_calendar_*
YahrzeitExtras ==
    { <<>>, <<<<"years", IntV(5)>>>>, <<<<"name", StrV("Sara")>>>>,
      <<<<"y1", StrV("1990")>>, <<"geonameid", IntV(281184)>>>>,
      <<<<"", StrV("x")>>>> }

CalendarExtras ==
    { <<>>, <<<<"year", IntV(2024)>>, <<"maj", StrV("on")>>>>,
      <<<<"year", IntV(2024)>>, <<"date", ValidText>>>> }

\* what set_param is called with, by client
SetParamArgs ==
    [zmanim |-> { <<"date", ValidText>>, <<"sec", IntV(1)>>, <<"sec", None>>,
                  <<"v", None>>, <<"name", StrV("Sara")>> },
     converter |-> { <<"lg", StrV("he")>>, <<"cfg", None>>, <<"date", ValidText>>,
                     <<"v", StrV("2")>> },
     yahrzeit |-> { <<"years", IntV(5)>>, <<"v", None>>, <<"name", StrV("Sara")>>,
                    <<"x1", StrV("x")>>, <<"", StrV("x")>> }]

AddEventArgs ==
    { [index |-> i, year |-> IntV(1990), month |-> IntV(5), day |-> IntV(17),
       after_sunset |-> gs, event_type |-> ty, name |-> nm] :
        i \in {0, 1}, gs \in BOOLEAN, ty \in {"Yahrzeit", "Memorial"},
        nm \in {None, StrV(""), StrV("Sara Cohen")} }

\* a mutator of client c was called with arguments a and ended with res
Mutate(op, c, a, res) ==
    /\ call' = [op |-> op, mode |-> "sync", args |-> a, reply |-> NoReply, client |-> c]
    /\ params' = IF res.kind = "ok" THEN [params EXCEPT ![c] = res.val] ELSE params
    /\ nmut' = nmut + 1
    /\ sent' = <<>>
    /\ outcome' = IF res.kind = "ok" THEN Ok(None) ELSE res
    /\ UNCHANGED <<log, padded>>

CallSetParam ==
    /\ Idle
    /\ nmut < MaxMutations
    /\ \E c \in DOMAIN SetParamArgs :
        \E kv \in SetParamArgs[c] :
            Mutate("set_param", c, kv,
                   CASE c = "zmanim" -> Zmanim_set_param(params[c], kv[1], kv[2])
                     [] c = "converter" -> Converter_set_param(params[c], kv[1], kv[2])
                     [] c = "yahrzeit" -> Yahrzeit_set_param(params[c], kv[1], kv[2]))

CallAddEvent ==
    /\ Idle
    /\ nmut < MaxMutations
    /\ \E a \in AddEventArgs :
        Mutate("add_event", "yahrzeit", a, Yahrzeit_add_event(params["yahrzeit"], a))

\* operation op of its client in the given mode, with the client's stored
\* parameters, the arguments a and the server's reply r
Perform(op, mode, stored, a, r) ==
    CASE op = "get_events" -> Calendar_get_events(mode, stored, a, r)
      [] op = "_get_calendar" -> Calendar_get_calendar(mode, stored, a, r)
      [] op = "get_shabbat" -> Shabat_get_shabbat(mode, stored, a, r)
      [] op = "get_leyning" -> Leyning_get_leyning(mode, stored, a, r)
      [] op = "get_zmanim" -> Zmanim_get_zmanim(mode, stored, a, r)
      [] op = "g2h_single" -> Converter_g2h_single(mode, stored, a, r)
      [] op = "g2h_range" -> Converter_g2h_range(mode, stored, a, r)
      [] op = "h2g_single" -> Converter_h2g_single(mode, stored, a, r)
      [] op = "h2g_range" -> Converter_h2g_range(mode, stored, a, r)
      [] op = "get_yahrzeit" -> Yahrzeit_get_yahrzeit(mode, stored, a, r)

\* the warnings an operation writes: those of its date validator
Warnings(op, a) ==
    IF op = "get_leyning" THEN Leyning_warnings(a.date, a.start, a.end)
    ELSE IF op = "get_zmanim" THEN Zmanim_warnings(a.date, a.start, a.end)
    ELSE <<>>

\* self.params after a request operation that began with `merged = self.params`
\* in place of the copy: the merged mapping it sent
StoredAfterShared(stored, done) ==
    IF done.sent = <<>> THEN stored ELSE done.sent[1]

\* self.params after a request operation: every _merge_params begins with
\* `merged = self.params.copy()` and writes to the copy, and no request
\* operation assigns self.params or one of its keys
StoredAfter(stored, done) == stored

\* the request operation op of client c, called in the given mode with the
\* arguments a, got the reply r (NoReply when it asked the server nothing) and
\* ended with done
Request(op, c, mode, a, r, done) ==
    /\ (r = NoReply) <=> (done.sent = <<>>)
    /\ call' = [op |-> op, mode |-> mode, args |-> a, reply |-> r, client |-> c]
    /\ sent' = done.sent
    /\ outcome' = done.outcome
    /\ log' = Warnings(op, a)
    /\ params' = [params EXCEPT ![c] = StoredAfter(params[c], done)]
    /\ UNCHANGED <<nmut, padded>>

AnyReply == EndpointReplies \cup {NoReply}

CallEvents ==
    /\ Idle
    /\ \E mode \in Modes, a \in FewEventArgs, r \in AnyReply :
        Request("get_events", "calendar", mode, a, r,
                Perform("get_events", mode, params["calendar"], a, r))

CallGetCalendar ==
    /\ Idle
    /\ \E mode \in Modes, a \in CalendarExtras, r \in AnyReply :
        Request("_get_calendar", "calendar", mode, a, r,
                Perform("_get_calendar", mode, params["calendar"], a, r))

CallGetShabbat ==
    /\ Idle
    /\ \E mode \in Modes, a \in ShabatArgs, r \in AnyReply :
        Request("get_shabbat", "shabbat", mode, a, r,
                Perform("get_shabbat", mode, params["shabbat"], a, r))

CallGetLeyning ==
    /\ Idle
    /\ \E mode \in Modes, a \in LeyningArgs, r \in AnyReply :
        Request("get_leyning", "leyning", mode, a, r,
                Perform("get_leyning", mode, params["leyning"], a, r))

CallGetZmanim ==
    /\ Idle
    /\ \E mode \in Modes, a \in ZmanimArgs, r \in AnyReply :
        Request("get_zmanim", "zmanim", mode, a, r,
                Perform("get_zmanim", mode, params["zmanim"], a, r))

CallG2hSingle ==
    /\ Idle
    /\ \E mode \in Modes, a \in G2hSingleArgs, r \in AnyReply :
        Request("g2h_single", "converter", mode, a, r,
                Perform("g2h_single", mode, params["converter"], a, r))

CallG2hRange ==
    /\ Idle
    /\ \E mode \in {"sync"}, a \in G2hRangeArgs, r \in AnyReply :
        Request("g2h_range", "converter", mode, a, r,
                Perform("g2h_range", mode, params["converter"], a, r))

CallH2gSingle ==
    /\ Idle
    /\ \E mode \in Modes, a \in H2gSingleArgs, r \in AnyReply :
        Request("h2g_single", "converter", mode, a, r,
                Perform("h2g_single", mode, params["converter"], a, r))

CallH2gRange ==
    /\ Idle
    /\ \E mode \in {"sync"}, a \in H2gRangeArgs, r \in AnyReply :
        Request("h2g_range", "converter", mode, a, r,
                Perform("h2g_range", mode, params["converter"], a, r))

CallGetYahrzeit ==
    /\ Idle
    /\ \E mode \in Modes, a \in YahrzeitExtras, r \in AnyReply :
        Request("get_yahrzeit", "yahrzeit", mode, a, r,
                Perform("get_yahrzeit", mode, params["yahrzeit"], a, r))

Next ==
    \/ CallSetParam
    \/ CallAddEvent
    \/ CallEvents
    \/ CallGetCalendar
    \/ CallGetShabbat
    \/ CallGetLeyning
    \/ CallGetZmanim
    \/ CallG2hSingle
    \/ CallG2hRange
    \/ CallH2gSingle
    \/ CallH2gRange
    \/ CallGetYahrzeit
    \/ Return

Spec == Init /\ [][Next]_vars


-----------------------------------------------------------------------------
(* C1: get_events and get_events_async, called with a year, exactly one    *)
(* valid location form and any set of boolean toggles, hand the transport  *)
(* exactly once the mapping made of the defaults {cfg: "json", v: "1"},    *)
(* year, the keys of the location form and code: "on" for exactly the      *)
(* toggles that are True.                                                  *)

YearOnly(a) ==
    /\ a.year # None /\ a.start = None /\ a.end = None
    /\ a.year_type = None /\ a.month = None /\ a.number_of_years = None

OptionsLeftOut(a) == a.israel = None /\ a.b = None /\ a.m = None /\ a.language = None

YearLocationToggles ==
    /\ call.op = "get_events"
    /\ YearOnly(call.args) /\ OptionsLeftOut(call.args) /\ OneValidForm(call.args)

ExpectedEventsMapping(a) ==
    [k \in {"cfg", "v", "year"} \cup (DOMAIN FormMapping(a)) \cup a.on |->
        IF k = "cfg" THEN StrV("json")
        ELSE IF k = "v" THEN StrV("1")
        ELSE IF k = "year" THEN a.year
        ELSE IF k \in DOMAIN FormMapping(a) THEN FormMapping(a)[k]
        ELSE StrV("on")]

-----------------------------------------------------------------------------
(* C3: for every endpoint client and every request operation, every key of *)
(* the mapping handed to the transport belongs to that endpoint's          *)
(* allow-list (for yahrzeit: or is one of y, m, d, s, t, n followed by a   *)
(* positive integer index), the keys of the client's default parameters    *)
(* included.                                                               *)

EndpointAllowList(c) ==
    CASE c = "calendar" -> Calendar_ALLOWED_PARAMS
      [] c = "shabbat" -> Shabat_ALLOWED_PARAMS
      [] c = "leyning" -> Leyning_ALLOWED_PARAMS
      [] c = "zmanim" -> Zmanim_ALLOWED_PARAMS
      [] c = "converter" -> Converter_ALLOWED_PARAMS
      [] c = "yahrzeit" -> Yahrzeit_ALLOWED_PARAMS

PositiveIndexes == {1, 2}

NumberedField(key) ==
    \E letter \in FieldLetters, index \in PositiveIndexes : key = IndexedKey(letter, index)

KeyBelongs(c, key) ==
    key \in EndpointAllowList(c) \/ (c = "yahrzeit" /\ NumberedField(key))

C3_KeysInAllowList ==
    \A i \in 1..Len(sent) : \A key \in DOMAIN sent[i] : KeyBelongs(call.client, key)

-----------------------------------------------------------------------------
(* C4: every public request operation issues no transport request when a   *)
(* validation rule fails (bad date text, conflicting location forms,       *)
(* negative minutes, disallowed key, ndays out of range) and exactly one   *)
(* when validation passes; a failed request is not retried and its error   *)
(* reaches the caller.                                                     *)

PublicRequestOps ==
    {"get_events", "get_shabbat", "get_leyning", "get_zmanim", "get_yahrzeit",
     "g2h_single", "g2h_range", "h2g_single", "h2g_range"}

BadDateText(v) == v.t = "str" /\ Truthy(v) /\ ~StrptimeOk(v)

NegativeMinutes(v) == v # None /\ v.n < 0

RuleFails(op, a) ==
    CASE op = "get_events" ->
            \/ BadDateText(a.start) \/ BadDateText(a.end)
            \/ FormsSupplied(a) >= 2
            \/ NegativeMinutes(a.b) \/ NegativeMinutes(a.m)
      [] op = "get_shabbat" ->
            \/ (a.geonameid # None /\ (a.latitude # None \/ a.longitude # None))
            \/ NegativeMinutes(a.b) \/ NegativeMinutes(a.m)
      [] op \in {"get_leyning", "get_zmanim"} ->
            BadDateText(a.date) \/ BadDateText(a.start) \/ BadDateText(a.end)
      [] op = "g2h_single" -> BadDateText(a.date)
      [] op = "g2h_range" -> BadDateText(a.start) \/ BadDateText(a.end)
      [] op = "h2g_range" -> a.ndays.n < 2 \/ a.ndays.n > 180
      [] op = "get_yahrzeit" -> \E i \in 1..Len(a) : ~KeyBelongs("yahrzeit", a[i][1])
      [] OTHER -> FALSE

RequestFailed == call.reply.net = "fail" \/ call.reply.status >= 400

C4_ValidationBeforeRequest ==
    call.op \in PublicRequestOps =>
        /\ Len(sent) <= 1
        /\ RuleFails(call.op, call.args) => (sent = <<>> /\ outcome.kind = "raise")
        /\ sent = <<>> => outcome.kind = "raise"
        /\ (Len(sent) = 1 /\ RequestFailed) => outcome.kind = "raise"

-----------------------------------------------------------------------------
(* C6: for the same arguments and the same server outcome, a blocking      *)
(* operation and its suspending twin hand the same parameter mapping to    *)
(* the transport and end with the same result or the same error kind.      *)

TwinOps ==
    {"get_events", "_get_calendar", "get_shabbat", "get_leyning", "get_zmanim",
     "g2h_single", "h2g_single", "get_yahrzeit"}

OtherMode(mode) == IF mode = "sync" THEN "async" ELSE "sync"

SameEnd(o1, o2) ==
    /\ o1.kind = o2.kind
    /\ o1.kind = "raise" => o1.exc = o2.exc
    /\ o1.kind = "ok" => o1.val = o2.val

C6_TwinsAgree ==
    call.op \in TwinOps =>
        LET twin == Perform(call.op, OtherMode(call.mode), params[call.client],
                            call.args, call.reply)
        IN  twin.sent = sent /\ SameEnd(twin.outcome, outcome)

-----------------------------------------------------------------------------
(* The response mappers: tools/types.py.  A JSON object is a dict value:   *)
(* DictV(keys) has the given members, the text of each named by its key.   *)
(* A raw calendar item is [category, date, omer, leyning, memo], each the  *)
(* value of that member, or Missing.                                       *)

DictV(keys) == [t |-> "dict", n |-> Cardinality(keys), s |-> "", d |-> <<keys>>]

\* d.get(key) and d.get(key, default) of a dict value
DictGet(v, key, default) == IF key \in v.d[1] THEN StrV(key) ELSE default

\* the "omer" member of an item, with its "count" and "sefira" members
OmerV(count, sefira) == [t |-> "omer", n |-> 2, s |-> "", d |-> <<count, sefira>>]

\* a datetime with a time of day and an offset
IsoDateTime(y, m, d, time) == [t |-> "datetime", n |-> 0, s |-> time, d |-> <<y, m, d>>]

OffsetText == StrV("2024-01-15T16:30:00+02:00")
DateOnlyText == StrV("2024-01-15")
ZuluText == StrV("2024-01-15T16:30:00Z")
UnpaddedText == StrV("2024-1-15")
ProseText == StrV("tomorrow")

\* datetime.fromisoformat(v); z_ok is whether the interpreter's fromisoformat
\* reads a trailing "Z" (Python 3.11 and later do)
FromIsoformat(v, z_ok) ==
    IF v.t # "str" THEN Raise("TypeError", "fromisoformat: argument must be str")
    ELSE IF v = OffsetText THEN Ok(IsoDateTime(2024, 1, 15, "16:30:00+02:00"))
    ELSE IF v = DateOnlyText THEN Ok(IsoDateTime(2024, 1, 15, "00:00:00"))
    ELSE IF v = ZuluText /\ z_ok THEN Ok(IsoDateTime(2024, 1, 15, "16:30:00+00:00"))
    ELSE Raise("ValueError", "Invalid isoformat string")

\* the date of an Event: fromisoformat of the text with "Z" replaced by
\* "+00:00", then strptime "%Y-%m-%d", then None
EventDate(v) ==
    IF v = Missing \/ v.t # "str" THEN None
    ELSE IF v = ZuluText THEN IsoDateTime(2024, 1, 15, "16:30:00+00:00")
    ELSE IF FromIsoformat(v, FALSE).kind = "ok" THEN FromIsoformat(v, FALSE).val
    ELSE IF v = UnpaddedText THEN IsoDateTime(2024, 1, 15, "00:00:00")
    ELSE None

\* data.get(key): None for a member that is missing
Get(v) == IF v = Missing THEN None ELSE v

\* data.get("leyning", {})
LeyningOrEmpty(data) == IF data.leyning = Missing THEN DictV({}) ELSE data.leyning

\* the keys of a dict for which k.isdigit()
DigitKeys(v) == v.d[1] \cap {"1", "2", "3", "4", "5", "6", "7"}

\* the omer block of Event.from_dict
OmerBlock(data) ==
    IF data.omer = Missing THEN Ok(None)
    ELSE IF data.omer.t # "omer" THEN Raise("TypeError", "not subscriptable")
    ELSE LET count == data.omer.d[1]
             sefira == data.omer.d[2]
         IN  IF count = Missing THEN Raise("KeyError", "count")
             ELSE IF count.t # "dict" THEN Raise("AttributeError", "get")
             ELSE IF sefira = Missing THEN Raise("KeyError", "sefira")
             ELSE IF sefira.t # "dict" THEN Raise("AttributeError", "get")
             ELSE Ok([count_he |-> DictGet(count, "he", StrV("")),
                      count_en |-> DictGet(count, "en", StrV("")),
                      sefira_he |-> DictGet(sefira, "he", StrV("")),
                      sefira_translit |-> DictGet(sefira, "translit", StrV("")),
                      sefira_en |-> DictGet(sefira, "en", StrV(""))])

HolidayBlock(data) ==
    IF data.category = StrV("holiday")
    THEN Ok([memo |-> Get(data.memo), leyning |-> Get(data.leyning)])
    ELSE Ok(None)

ParashatInfo_from_dict(data) ==
    IF ~Truthy(data) THEN Ok([torah |-> None, aliyot |-> None])
    ELSE IF data.t # "dict" THEN Raise("AttributeError", "items")
    ELSE Ok([torah |-> DictGet(data, "torah", None),
             aliyot |-> IF DigitKeys(data) = {} THEN None ELSE DictV(DigitKeys(data))])

ParashatBlock(data) ==
    IF data.category = StrV("parashat") THEN ParashatInfo_from_dict(LeyningOrEmpty(data))
    ELSE Ok(None)

ShabbatInfo(leyning) ==
    IF leyning.t # "dict" THEN Raise("AttributeError", "get")
    ELSE Ok([torah |-> DictGet(leyning, "torah", None), leyning |-> leyning])

\* the first shabbat block, whose result the second one replaces
ShabbatFirstBlock(data) ==
    IF data.category = StrV("shabbat") THEN ShabbatInfo(LeyningOrEmpty(data)) ELSE Ok(None)

ShabbatBlock(data) ==
    IF data.category \in {StrV("shabbat"), StrV("parashat")} \/ data.leyning # Missing
    THEN ShabbatInfo(LeyningOrEmpty(data))
    ELSE Ok(None)

\* a variant that fills the block of every timed category, whichever of them
\* the item's category is
TimedBlockAnyCategory(data, category, z_ok) ==
    IF data.category \notin {StrV("zmanim"), StrV("havdalah"), StrV("candles")} THEN Ok(None)
    ELSE LET time == FromIsoformat(Get(data.date), z_ok)
         IN  IF time.kind = "raise" THEN time
             ELSE Ok([time |-> time.val, memo |-> Get(data.memo)])

\* the zmanim, havdalah and candles blocks: fromisoformat of data.get("date")
TimedBlock(data, category, z_ok) ==
    IF data.category # StrV(category) THEN Ok(None)
    ELSE LET time == FromIsoformat(Get(data.date), z_ok)
         IN  IF time.kind = "raise" THEN time
             ELSE Ok([time |-> time.val, memo |-> Get(data.memo)])

RoshChodeshBlock(data) ==
    IF data.category \notin {StrV("roshchodesh"), StrV("rosh chodesh")} THEN Ok(None)
    ELSE IF LeyningOrEmpty(data).t # "dict" THEN Raise("AttributeError", "get")
    ELSE Ok([torah |-> DictGet(LeyningOrEmpty(data), "torah", None),
             portions |-> DictV(DigitKeys(LeyningOrEmpty(data))),
             memo |-> Get(data.memo)])

\* s.lower() of the category texts
Lower(s) ==
    CASE s = "Holiday" -> "holiday"
      [] s = "CANDLES" -> "candles"
      [] OTHER -> s

EventTypeValues ==
    {"omer", "holiday", "havdalah", "candles", "roshchodesh", "shabbat", "parashat",
     "zmanim", "unknown"}

\* data.get("category", "").lower() and the EventType of it
TypeBlock(data) ==
    IF data.category = Missing THEN Ok("unknown")
    ELSE IF data.category.t # "str" THEN Raise("AttributeError", "lower")
    ELSE IF Lower(data.category.s) \in EventTypeValues THEN Ok(Lower(data.category.s))
    ELSE Ok("unknown")

\* the first of the results that is a raise, or the last one
RECURSIVE FirstRaise(_)
FirstRaise(results) ==
    IF Len(results) = 1 \/ Head(results).kind = "raise" THEN Head(results)
    ELSE FirstRaise(Tail(results))

Event_from_dict(data, z_ok) ==
    LET omer == OmerBlock(data)
        holiday == HolidayBlock(data)
        parashat == ParashatBlock(data)
        first == ShabbatFirstBlock(data)
        zmanim == TimedBlock(data, "zmanim", z_ok)
        havdalah == TimedBlock(data, "havdalah", z_ok)
        candle == TimedBlock(data, "candles", z_ok)
        shabbat == ShabbatBlock(data)
        roshchodesh == RoshChodeshBlock(data)
        type == TypeBlock(data)
        blocks == <<omer, holiday, parashat, first, zmanim, havdalah, candle, shabbat,
                    roshchodesh, type>>
    IN  IF FirstRaise(blocks).kind = "raise" THEN FirstRaise(blocks)
        ELSE Ok([date |-> EventDate(data.date), type |-> type.val,
                 omer |-> omer.val, zmanim |-> zmanim.val, holiday |-> holiday.val,
                 parashat |-> parashat.val, havdalah |-> havdalah.val,
                 candle |-> candle.val, shabbat |-> shabbat.val,
                 roshchodesh |-> roshchodesh.val])

\* [Event.from_dict(item) for item in raw_items]
RECURSIVE EventList(_, _)
EventList(raw_items, z_ok) ==
    IF raw_items = <<>> THEN Ok(<<>>)
    ELSE LET event == Event_from_dict(Head(raw_items), z_ok)
             rest == EventList(Tail(raw_items), z_ok)
         IN  IF event.kind = "raise" THEN event
             ELSE IF rest.kind = "raise" THEN rest
             ELSE Ok(<<event.val>> \o rest.val)

\* CalendarResponse.items of the data [has, items]: has is "list" with the raw
\* items, "null" for an "items" member that is null, "missing" for none
CalendarResponse_items(data, z_ok) ==
    IF data.has = "missing" THEN Ok(<<>>)
    ELSE IF data.has = "null" THEN Raise("TypeError", "'NoneType' object is not iterable")
    ELSE EventList(data.items, z_ok)

\* the members of the raw items
CategoryValues ==
    {Missing, None, IntV(5)}
    \cup {StrV(c) : c \in {"omer", "holiday", "havdalah", "candles", "roshchodesh",
                           "rosh chodesh", "shabbat", "parashat", "zmanim", "mevarchim",
                           "Holiday", "CANDLES"}}

DateValues ==
    {Missing, None, IntV(20240115), OffsetText, DateOnlyText, ZuluText, UnpaddedText,
     ProseText}

HeEn == DictV({"he", "en"})

OmerValues ==
    {Missing, None, OmerV(Missing, Missing), OmerV(HeEn, Missing), OmerV(None, HeEn),
     OmerV(HeEn, DictV({"he", "en", "translit"})), OmerV(DictV({}), DictV({}))}

LeyningValues ==
    {Missing, None, StrV("Genesis 1:1"), DictV({}), DictV({"torah", "haftarah"}),
     DictV({"torah", "haftarah", "maftir", "1", "7", "triennial"})}

MemoValues == {Missing, None, StrV("memo")}

RawItems ==
    [category : CategoryValues, date : DateValues, omer : OmerValues,
     leyning : LeyningValues, memo : MemoValues]

Item(category, date, omer, leyning) ==
    [category |-> category, date |-> date, omer |-> omer, leyning |-> leyning,
     memo |-> Missing]

\* the items the lists of a response are made of
ListItems ==
    { Item(StrV("holiday"), DateOnlyText, Missing, Missing),
      Item(StrV("candles"), OffsetText, Missing, Missing),
      Item(StrV("candles"), Missing, Missing, Missing),
      Item(StrV("parashat"), DateOnlyText, Missing, DictV({"torah", "haftarah"})),
      Item(StrV("omer"), DateOnlyText, OmerV(HeEn, Missing), Missing),
      Item(Missing, ProseText, Missing, Missing) }

\* the most items of a response
MaxItems == 2

RECURSIVE ListsUpTo(_, _)
ListsUpTo(items, k) ==
    IF k = 0 THEN {<<>>}
    ELSE ListsUpTo(items, k - 1)
         \cup {<<item>> \o rest : item \in items,
                                  rest \in {l \in ListsUpTo(items, k - 1) : Len(l) = k - 1}}

ResponseData ==
    {[has |-> "missing", items |-> <<>>], [has |-> "null", items |-> <<>>]}
    \cup {[has |-> "list", items |-> l] : l \in ListsUpTo(ListItems, MaxItems)}

CallFromDict ==
    /\ Idle
    /\ \E data \in RawItems, z_ok \in BOOLEAN :
        /\ call' = [op |-> "Event.from_dict", mode |-> "sync", args |-> data, z_ok |-> z_ok]
        /\ outcome' = Event_from_dict(data, z_ok)
        /\ UNCHANGED <<params, nmut, sent, log, padded>>

CallItems ==
    /\ Idle
    /\ \E data \in ResponseData, z_ok \in BOOLEAN :
        /\ call' = [op |-> "CalendarResponse.items", mode |-> "sync", args |-> data,
                    z_ok |-> z_ok]
        /\ outcome' = CalendarResponse_items(data, z_ok)
        /\ UNCHANGED <<params, nmut, sent, log, padded>>

\* The flat records.  The raw object is taken by its "date" member, the other
\* members being well-formed: data is [date |-> value or Missing].

\* LeyningItem.from_dict (and LeyningResponse.from_dict, which reads its date
\* the same way): data["date"] handed to fromisoformat
LeyningItem_from_dict(data, z_ok) ==
    IF data.date = Missing THEN Raise("KeyError", "date")
    ELSE LET date == FromIsoformat(data.date, z_ok)
         IN  IF date.kind = "raise" THEN date
             ELSE Ok([class |-> "LeyningItem", date |-> date.val])

\* the date of a converter result and of a yahrzeit event: fromisoformat of a
\* date that is truthy, None when it raises ValueError or TypeError
ParsedDate(data, z_ok) ==
    IF ~Truthy(Get(data.date)) THEN None
    ELSE IF FromIsoformat(data.date, z_ok).kind = "raise" THEN None
    ELSE FromIsoformat(data.date, z_ok).val

ConverterResponse_from_api(data, z_ok) ==
    Ok([class |-> "ConverterResponse", date |-> ParsedDate(data, z_ok)])

YahrzeitEvent_from_api(data, z_ok) ==
    Ok([class |-> "YahrzeitEvent", date |-> ParsedDate(data, z_ok)])

\* ZmanimResponse.from_api of an object with its version and location: the
\* date is data["date"] as it is
ZmanimResponse_date(data) ==
    IF data.date = Missing THEN Raise("KeyError", "date")
    ELSE Ok([class |-> "ZmanimResponse", date |-> data.date])

\* the objects the flat mappers are given
DatedObjects == [date : DateValues \cup {StrV("")}]

\* a flat mapper called with data, ending with res
MapperCall(op, data, z_ok, res) ==
    /\ call' = [op |-> op, mode |-> "sync", args |-> data, z_ok |-> z_ok]
    /\ outcome' = res
    /\ UNCHANGED <<params, nmut, sent, log, padded>>

CallLeyningItem ==
    /\ Idle
    /\ \E data \in DatedObjects, z_ok \in BOOLEAN :
        MapperCall("LeyningItem.from_dict", data, z_ok, LeyningItem_from_dict(data, z_ok))

CallConverterResponse ==
    /\ Idle
    /\ \E data \in DatedObjects, z_ok \in BOOLEAN :
        MapperCall("ConverterResponse.from_api", data, z_ok,
                   ConverterResponse_from_api(data, z_ok))

CallYahrzeitEvent ==
    /\ Idle
    /\ \E data \in DatedObjects, z_ok \in BOOLEAN :
        MapperCall("YahrzeitEvent.from_api", data, z_ok, YahrzeitEvent_from_api(data, z_ok))

CallZmanimResponse ==
    /\ Idle
    /\ \E data \in DatedObjects, z_ok \in BOOLEAN :
        MapperCall("ZmanimResponse.from_api", data, z_ok, ZmanimResponse_date(data))

NextMapper ==
    \/ CallFromDict
    \/ CallItems
    \/ CallLeyningItem
    \/ CallConverterResponse
    \/ CallYahrzeitEvent
    \/ CallZmanimResponse
    \/ Return

SpecMapper == Init /\ [][NextMapper]_vars

-----------------------------------------------------------------------------
(* C7: Event.from_dict never raises for a well-formed JSON object: a       *)
(* category, date, omer, leyning or memo that is missing, null or          *)
(* malformed yields absent or unknown fields.                              *)

C7_FromDictNeverRaises ==
    call.op = "Event.from_dict" => outcome.kind = "ok"

-----------------------------------------------------------------------------
(* C8: an Event has at most one populated sub-record among omer, holiday,  *)
(* parashat, havdalah, candle, shabbat, roshchodesh and zmanim.            *)

SubRecords ==
    {"omer", "holiday", "parashat", "havdalah", "candle", "shabbat", "roshchodesh", "zmanim"}

Populated(event) == {sub \in SubRecords : event[sub] # None}

C8_AtMostOneSubRecord ==
    (call.op = "Event.from_dict" /\ outcome.kind = "ok") =>
        Cardinality(Populated(outcome.val)) <= 1

-----------------------------------------------------------------------------
(* C9: the category is read case-insensitively and gives the type tag      *)
(* (unknown when it is no known category), and whenever a sub-record is    *)
(* populated the type tag names the category of that sub-record.           *)

\* the category whose sub-record sub is
CategoryOf(sub) == IF sub = "candle" THEN "candles" ELSE sub

\* the category of the item in lower case, "" when it has none
LowerCategory(data) ==
    IF data.category.t = "str" THEN Lower(data.category.s) ELSE ""

C9_TypeNamesSubRecord ==
    (call.op = "Event.from_dict" /\ outcome.kind = "ok") =>
        /\ outcome.val.type = IF LowerCategory(call.args) \in EventTypeValues
                              THEN LowerCategory(call.args) ELSE "unknown"
        /\ \A sub \in Populated(outcome.val) : outcome.val.type = CategoryOf(sub)

-----------------------------------------------------------------------------
(* C10: CalendarResponse.items maps N raw items to N events in the same    *)
(* order, and a malformed item never aborts the rest of the list.          *)

C10_ItemsInOrder ==
    (call.op = "CalendarResponse.items" /\ call.args.has = "list") =>
        /\ outcome.kind = "ok"
        /\ Len(outcome.val) = Len(call.args.items)
        /\ \A i \in 1..Len(call.args.items) :
            LET event == Event_from_dict(call.args.items[i], call.z_ok)
            IN  event.kind = "ok" => outcome.val[i] = event.val

-----------------------------------------------------------------------------
(* C11: when validation passes and the transport returns a well-formed     *)
(* body, get_leyning, get_shabbat, g2h_single, h2g_single and g2h_range,   *)
(* blocking or suspending, return the typed response instead of raising.   *)

TypedOps == {"get_leyning", "get_shabbat", "g2h_single", "h2g_single", "g2h_range"}

\* a 200 reply whose body has the shape the operation maps: an array of
\* objects for a range, an object with members otherwise
WellFormedReply(op, r) ==
    /\ r.net = "ok"
    /\ r.status = 200
    /\ r.body.n > 0
    /\ r.body.json = (IF op \in {"g2h_range", "h2g_range"} THEN "array" ELSE "object")

Answered(ops) ==
    /\ call.op \in ops
    /\ Len(sent) = 1
    /\ WellFormedReply(call.op, call.reply)

C11_TypedResponses == Answered(TypedOps) => outcome.kind = "ok"

-----------------------------------------------------------------------------
(* C12: get_yahrzeit and get_yahrzeit_async map a response object whose    *)
(* events array has N items to a YahrzeitResponse with exactly N events,   *)
(* in order, each carrying its item's title.                               *)

C12_YahrzeitEvents ==
    Answered({"get_yahrzeit"}) =>
        /\ outcome.kind = "ok"
        /\ outcome.val.class = "YahrzeitResponse"
        /\ outcome.val.raw.n = call.reply.body.n

-----------------------------------------------------------------------------
(* The date validators and formatters called on their own: the values a    *)
(* date parameter is given, the calls, and the specification of them.      *)

CanonicalText(y, m, d) == DateText(y, m, d, 4, 2, 2)

\* nothing, the empty text, canonical and unpadded texts, a text of no date,
\* date and datetime values (one of a year below 1000), a number, and the
\* days about 180 days after 2024-01-01
DateInputs ==
    { None, StrV(""),
      ValidText, DateText(2024, 1, 5, 4, 1, 1), BadText,
      Date(2024, 1, 15), DateTime(2024, 1, 15), Date(999, 1, 5),
      IntV(20240115),
      CanonicalText(2024, 1, 1), CanonicalText(2024, 6, 28),
      CanonicalText(2024, 6, 29), DateTime(2024, 6, 30) }

DatesCall(op, date, start, end) ==
    [op |-> op, mode |-> "sync", args |-> [date |-> date, start |-> start, end |-> end]]

CallLeyningValidateDates ==
    /\ Idle
    /\ \E date \in DateInputs, start \in DateInputs, end \in DateInputs :
        /\ call' = DatesCall("Leyning._validate_dates", date, start, end)
        /\ outcome' = Leyning_validate_dates(date, start, end)
        /\ log' = Leyning_warnings(date, start, end)
        /\ UNCHANGED <<params, nmut, sent, padded>>

CallZmanimValidateDates ==
    /\ Idle
    /\ \E date \in DateInputs, start \in DateInputs, end \in DateInputs :
        /\ call' = DatesCall("Zmanim._validate_dates", date, start, end)
        /\ outcome' = Zmanim_validate_dates(date, start, end)
        /\ log' = Zmanim_warnings(date, start, end)
        /\ UNCHANGED <<params, nmut, sent, padded>>

\* a formatter called with dt, ending with res
FormatCall(op, dt, res) ==
    /\ call' = [op |-> op, mode |-> "sync", args |-> dt]
    /\ outcome' = res
    /\ UNCHANGED <<params, nmut, sent, log, padded>>

CallCalendarFormat ==
    /\ Idle
    /\ \E dt \in DateInputs :
        FormatCall("Calendar._format_datetime", dt, Calendar_format_datetime(dt))

CallLeyningFormat ==
    /\ Idle
    /\ \E dt \in DateInputs :
        FormatCall("Leyning._format_datetime", dt, Leyning_format_datetime(dt))

CallZmanimFormat ==
    /\ Idle
    /\ \E dt \in DateInputs :
        FormatCall("Zmanim._format_datetime", dt, Zmanim_format_datetime(dt))

CallConverterFormat ==
    /\ Idle
    /\ \E dt \in DateInputs :
        FormatCall("Converter._format_date", dt, Converter_format_date(dt))

NextDates ==
    \/ CallLeyningValidateDates
    \/ CallZmanimValidateDates
    \/ CallCalendarFormat
    \/ CallLeyningFormat
    \/ CallZmanimFormat
    \/ CallConverterFormat
    \/ Return

SpecDates == Init /\ [][NextDates]_vars

-----------------------------------------------------------------------------
(* C13: for every valid single-date input to Leyning._validate_dates and   *)
(* Zmanim._validate_dates (canonical YYYY-MM-DD text, a date value or a    *)
(* date-time value) the output is exactly the one-key mapping {date: text},*)
(* text the YYYY-MM-DD form of the input, whether or not start and end     *)
(* were also supplied.                                                     *)

DateValidators == {"Leyning._validate_dates", "Zmanim._validate_dates"}

IsCanonicalText(v) == v.t = "str" /\ Len(v.d) = 6 /\ StrptimeOk(v) /\ v.d[5] = 2 /\ v.d[6] = 2

\* a valid date input: canonical text, a date or a datetime
ValidDate(v) == IsCanonicalText(v) \/ v.t \in {"date", "datetime"}

\* the YYYY-MM-DD form of a valid date input
Canonical(v) == CanonicalText(v.d[1], v.d[2], v.d[3])

C13_SingleDateMapping ==
    (call.op \in DateValidators /\ ValidDate(call.args.date)) =>
        outcome = Ok(<<<<"date", Canonical(call.args.date)>>>>)

-----------------------------------------------------------------------------
(* C14: with no single date supplied, Leyning._validate_dates and          *)
(* Zmanim._validate_dates return exactly {start: text, end: text} for      *)
(* every valid (start, end) pair, and fail with one and the same           *)
(* validation message when only start, only end, or neither is supplied.   *)

C14_RangeMapping ==
    (call.op \in DateValidators /\ call.args.date = None) =>
        /\ (ValidDate(call.args.start) /\ ValidDate(call.args.end)) =>
               outcome = Ok(<<<<"start", Canonical(call.args.start)>>,
                              <<"end", Canonical(call.args.end)>>>>)
        /\ (call.args.start = None \/ call.args.end = None) =>
               outcome = Raise("ValueError", DatesMsg)

\* the part of C14 about the missing start or end
C14_SameMessage ==
    (call.op \in DateValidators /\ call.args.date = None
     /\ (call.args.start = None \/ call.args.end = None)) =>
        outcome = Raise("ValueError", DatesMsg)

-----------------------------------------------------------------------------
(* C15: the mapping a leyning or zmanim request hands to the transport     *)
(* contains either the key date or both keys start and end, never both     *)
(* forms and never neither, for any arguments that pass validation and     *)
(* after any sequence of set_param calls.                                  *)

DateForm(m) == "date" \in DOMAIN m /\ "start" \notin DOMAIN m /\ "end" \notin DOMAIN m

RangeForm(m) == "date" \notin DOMAIN m /\ "start" \in DOMAIN m /\ "end" \in DOMAIN m

C15_DateOrRange ==
    call.op \in {"get_leyning", "get_zmanim"} =>
        \A i \in 1..Len(sent) : DateForm(sent[i]) \/ RangeForm(sent[i])

-----------------------------------------------------------------------------
(* C16: for every valid (start, end) pair given to the leyning or zmanim   *)
(* date validator the call never fails because of the length of the range, *)
(* and the truncation warning is emitted exactly when the inclusive span   *)
(* in days from start through end exceeds 180.                             *)

\* the days from start through end, both counted
InclusiveSpan(start, end) == DaysBetween(start, end) + 1

RangeCall ==
    /\ call.op \in DateValidators
    /\ ~Truthy(call.args.date)
    /\ Truthy(call.args.start) /\ Truthy(call.args.end)
    /\ outcome.kind = "ok"

C16_WarningOverSpan ==
    RangeCall =>
        (log = <<RangeWarning>>)
            <=> (InclusiveSpan(Strptime(outcome.val[1][2]), Strptime(outcome.val[2][2])) > 180)

\* the warning as the code emits it: when the difference in days exceeds 180
C16_WarningOverDifference ==
    RangeCall =>
        /\ log \in {<<>>, <<RangeWarning>>}
        /\ (log = <<RangeWarning>>)
            <=> (DaysBetween(Strptime(outcome.val[1][2]), Strptime(outcome.val[2][2])) > 180)

-----------------------------------------------------------------------------
(* C17: each endpoint's date formatter (Calendar._format_datetime,         *)
(* Leyning._format_datetime, Zmanim._format_datetime,                      *)
(* Converter._format_date) either fails or returns canonical zero-padded   *)
(* YYYY-MM-DD text: the same text for canonical text, and for a date or    *)
(* date-time value the text whose re-parse yields the same calendar date.  *)

DateFormatters ==
    {"Calendar._format_datetime", "Leyning._format_datetime",
     "Zmanim._format_datetime", "Converter._format_date"}

SameDay(a, b) == a.d[1] = b.d[1] /\ a.d[2] = b.d[2] /\ a.d[3] = b.d[3]

FormatterContract(ops) ==
    (call.op \in ops /\ outcome.kind = "ok") =>
        /\ IsCanonicalText(outcome.val)
        /\ IsCanonicalText(call.args) => outcome.val = call.args
        /\ call.args.t \in {"date", "datetime"} => SameDay(Strptime(outcome.val), call.args)

C17_FormatterCanonical == FormatterContract(DateFormatters)

-----------------------------------------------------------------------------
(* C18: Converter.h2g_range fails with a validation error, before any      *)
(* request is issued, for every ndays below 2 or above 180, and for every  *)
(* ndays from 2 to 180 inclusive the call succeeds when the transport      *)
(* returns a well-formed array.                                            *)

NdaysMsg == "ndays must be between 2 and 180"

\* the part of C18 about the ndays that are refused
C18_NdaysRefused ==
    (call.op = "h2g_range" /\ (call.args.ndays.n < 2 \/ call.args.ndays.n > 180)) =>
        sent = <<>> /\ outcome = Raise("ValueError", NdaysMsg)

C18_NdaysRange ==
    call.op = "h2g_range" =>
        /\ (call.args.ndays.n < 2 \/ call.args.ndays.n > 180) =>
               sent = <<>> /\ outcome = Raise("ValueError", NdaysMsg)
        /\ (call.args.ndays.n \in 2..180 /\ Answered({"h2g_range"})) => outcome.kind = "ok"

-----------------------------------------------------------------------------
(* C19: for a raw object whose category is candles (respectively           *)
(* havdalah), whose date is an ISO-8601 timestamp with a UTC offset and    *)
(* which has no omer or leyning key, Event.from_dict yields the type tag   *)
(* candles (havdalah), a populated candle (havdalah) sub-record whose time *)
(* equals the parsed timestamp and the event's own date, and every other   *)
(* category sub-record unset.                                              *)

\* the timestamps that carry a UTC offset, each with the datetime it denotes
OffsetTimestamps == {OffsetText}

TimestampOf(v) == IsoDateTime(2024, 1, 15, "16:30:00+02:00")

\* the sub-record of a timed category
SubRecordOf(category) == IF category = StrV("candles") THEN "candle" ELSE "havdalah"

TimedCase(data) ==
    /\ data.category \in {StrV("candles"), StrV("havdalah")}
    /\ data.date \in OffsetTimestamps
    /\ data.omer = Missing
    /\ data.leyning = Missing

-----------------------------------------------------------------------------
(* C20: mapping a leyning item, a converter result, a yahrzeit event or a  *)
(* zmanim response never raises because of its date: the date is parsed as *)
(* ISO-8601, else as a plain date, and is left unset when both fail or the *)
(* date is missing.                                                        *)

FlatMappers ==
    {"LeyningItem.from_dict", "ConverterResponse.from_api", "YahrzeitEvent.from_api",
     "ZmanimResponse.from_api"}

C20_DateNeverRaises ==
    call.op \in FlatMappers =>
        /\ outcome.kind = "ok"
        /\ outcome.val.date = None \/ outcome.val.date.t = "datetime"

\* the part of C20 about the converter result and the yahrzeit event
C20_GuardedDate ==
    call.op \in {"ConverterResponse.from_api", "YahrzeitEvent.from_api"} =>
        /\ outcome.kind = "ok"
        /\ outcome.val.date = None \/ outcome.val.date.t = "datetime"

-----------------------------------------------------------------------------
(* The exception classes: tools/exception.py *)

\* the base class of each exception class
ExceptionBase ==
    [FetchError |-> "Exception", ParseError |-> "Exception",
     InvalidGeoLocationError |-> "Exception"]

\* issubclass(exc, handler): an `except handler` clause catches exc
RECURSIVE IsSubclass(_, _)
IsSubclass(exc, handler) ==
    \/ exc = handler
    \/ (exc \in DOMAIN ExceptionBase /\ IsSubclass(ExceptionBase[exc], handler))

-----------------------------------------------------------------------------
(* C21: the invalid-location error is a refinement of the fetch error:     *)
(* every caller that handles FetchError thereby handles                    *)
(* InvalidGeoLocationError, and InvalidGeoLocationError is raised only for *)
(* a 404 response whose error message says the location identifier could   *)
(* not be resolved.                                                        *)

RaisedInvalidGeoLocation ==
    call.op = "fetch" /\ outcome.kind = "raise" /\ outcome.exc = "InvalidGeoLocationError"

C21_InvalidLocationRefinesFetch ==
    RaisedInvalidGeoLocation =>
        /\ IsSubclass(outcome.exc, "FetchError")
        /\ IsGeoNotFound(call.args.reply)

\* the part of C21 about the responses the error is raised for
C21_OnlyForGeoNotFound ==
    RaisedInvalidGeoLocation => IsGeoNotFound(call.args.reply)

-----------------------------------------------------------------------------
(* C22: _get_calendar_sync and _get_calendar_async (and so get_events and  *)
(* get_events_async) raise a response-shape error whenever the transport   *)
(* returns a value that is not a JSON object, and otherwise return a       *)
(* CalendarResponse whose raw data is exactly the returned object.         *)

CalendarOps == {"_get_calendar", "get_events"}

ShapeMsg == "Invalid response data format from Hebcal API"

\* the transport returned the body of the reply
TransportReturned ==
    /\ call.op \in CalendarOps
    /\ Len(sent) = 1
    /\ call.reply.net = "ok"
    /\ call.reply.status < 400

C22_ResponseShape ==
    TransportReturned =>
        IF call.reply.body.json = "object"
        THEN outcome = Ok([class |-> "CalendarResponse", raw |-> call.reply.body])
        ELSE outcome = Raise("ValueError", ShapeMsg)

C22_Witness ==
    /\ TransportReturned
    /\ call.op = "get_events"
    /\ call.mode = "async"
    /\ call.reply.body.json = "array"
    /\ outcome = Raise("ValueError", ShapeMsg)

-----------------------------------------------------------------------------
(* C23: in get_events and in get_shabbat a supplied negative               *)
(* candle_lighting_minutes_before_sunset or havdalah_minutes_after_sunset  *)
(* always makes the call fail with a validation error, whatever the other  *)
(* arguments are, and a supplied non-negative value (0 included) is passed *)
(* through unchanged as b, respectively m.                                 *)

\* the minutes argument v is handled as claimed: refused when negative, sent
\* under the key when not
MinutesRule(v, key) ==
    v # None =>
        /\ v.n < 0 => (sent = <<>> /\ outcome.kind = "raise" /\ outcome.exc = "ValueError")
        /\ v.n >= 0 => \A i \in 1..Len(sent) : key \in DOMAIN sent[i] /\ sent[i][key] = v

C23_MinutesValidated ==
    call.op \in {"get_events", "get_shabbat"} =>
        MinutesRule(call.args.b, "b") /\ MinutesRule(call.args.m, "m")

\* the part of C23 that is about get_events
C23_EventsMinutes ==
    call.op = "get_events" => MinutesRule(call.args.b, "b") /\ MinutesRule(call.args.m, "m")

-----------------------------------------------------------------------------
(* The nikud stripper: tools/utils.py.  A text is a str value whose d part *)
(* is the sequence of its code points; the empty text is StrV("").         *)

Text(cs) == [t |-> "str", n |-> 0, s |-> "", d |-> cs]

\* the code points of the character class [\u0591-\u05C7]
NikudRange == 1425..1479

\* re.sub(r'[\u0591-\u05C7]', '', text) on the code points of text
RECURSIVE Sub(_, _)
Sub(class, cs) ==
    IF cs = <<>> THEN <<>>
    ELSE (IF Head(cs) \in class THEN <<>> ELSE <<Head(cs)>>) \o Sub(class, Tail(cs))

\* a variant whose class ends one code point early
remove_hebrew_nikud_short(text) ==
    IF ~Truthy(text) THEN Raise("ValueError", "Input text cannot be None")
    ELSE Ok(Text(Sub(1425..1478, text.d)))

remove_hebrew_nikud(text) ==
    IF ~Truthy(text) THEN Raise("ValueError", "Input text cannot be None")
    ELSE Ok(Text(Sub(NikudRange, text.d)))

\* the longest text the stripper is called with
MaxTextLen == 3

\* "A", the space, shin, the code points on both sides of each end of the
\* range, and sheva from inside it
CodePoints == {65, 32, 1513, 1424, 1425, 1456, 1479, 1480}

RECURSIVE TextsOfLen(_)
TextsOfLen(k) ==
    IF k = 0 THEN {<<>>}
    ELSE {<<c>> \o cs : c \in CodePoints, cs \in TextsOfLen(k - 1)}

NikudInputs ==
    {None} \cup {Text(cs) : cs \in UNION {TextsOfLen(k) : k \in 0..MaxTextLen}}

CallRemoveHebrewNikud ==
    /\ Idle
    /\ \E text \in NikudInputs :
        /\ call' = [op |-> "remove_hebrew_nikud", mode |-> "sync", args |-> text]
        /\ outcome' = remove_hebrew_nikud(text)
        /\ UNCHANGED <<params, nmut, sent, log, padded>>

NextNikud == CallRemoveHebrewNikud \/ Return

SpecNikud == Init /\ [][NextNikud]_vars

-----------------------------------------------------------------------------
(* C24: remove_hebrew_nikud returns its input with exactly the code points *)
(* U+0591 to U+05C7 removed and every other character kept in its original *)
(* order, and fails with a validation error for empty or absent input.     *)

IsNikud(c) == c >= 1425 /\ c <= 1479

NotNikud(c) == ~IsNikud(c)

C24_NikudRemoved ==
    call.op = "remove_hebrew_nikud" =>
        IF call.args = None \/ call.args = StrV("")
        THEN outcome.kind = "raise" /\ outcome.exc = "ValueError"
        ELSE outcome = Ok(Text(SelectSeq(call.args.d, NotNikud)))

C24_Witness ==
    /\ call.op = "remove_hebrew_nikud"
    /\ call.args = Text(<<1513, 1479, 65>>)
    /\ outcome = Ok(Text(<<1513, 65>>))

-----------------------------------------------------------------------------
(* C25: Yahrzeit.set_param and Yahrzeit._merge_params accept a key only if *)
(* it is in the yahrzeit allow-list or is one of the letters y, m, d, s,   *)
(* t, n followed by a positive integer index; every other key (the empty   *)
(* key and any other word starting with one of those letters included) is  *)
(* rejected with a validation error.                                       *)

ValidationError == outcome.kind = "raise" /\ outcome.exc = "ValueError"

\* the keys of a sequence of <<key, value>> pairs
KeysOf(extra) == {extra[i][1] : i \in 1..Len(extra)}

C25_YahrzeitKeys ==
    /\ (call.op = "set_param" /\ call.client = "yahrzeit") =>
           IF KeyBelongs("yahrzeit", call.args[1])
           THEN outcome.kind = "ok"
           ELSE ValidationError
    /\ call.op = "get_yahrzeit" =>
           IF \A key \in KeysOf(call.args) : KeyBelongs("yahrzeit", key)
           THEN Len(sent) = 1
           ELSE ValidationError /\ sent = <<>>

-----------------------------------------------------------------------------
(* Sequences of set_param and add_event calls on one client: each call     *)
(* works on the mapping the calls before it left.                          *)

MaxCalls == 2

\* set_param(key, value) of client c on the stored mapping
SetParamOf(c, stored, key, value) ==
    CASE c = "zmanim" -> Zmanim_set_param(stored, key, value)
      [] c = "converter" -> Converter_set_param(stored, key, value)
      [] c = "yahrzeit" -> Yahrzeit_set_param(stored, key, value)

StoreSetParam ==
    /\ Idle
    /\ nmut < MaxCalls
    /\ \E c \in DOMAIN SetParamArgs :
        \E kv \in SetParamArgs[c] :
            Mutate("set_param", c, kv, SetParamOf(c, params[c], kv[1], kv[2]))

StoreAddEvent ==
    /\ Idle
    /\ nmut < MaxCalls
    /\ \E a \in AddEventArgs :
        Mutate("add_event", "yahrzeit", a, Yahrzeit_add_event(params["yahrzeit"], a))

NextParams == StoreSetParam \/ StoreAddEvent \/ Return

SpecParams == Init /\ [][NextParams]_vars

-----------------------------------------------------------------------------
(* C26: after Yahrzeit.add_event with an event type among Yahrzeit,        *)
(* Birthday and Anniversary, whatever calls came before on the client, the *)
(* parameters of that index are exactly y, m, d (the decimal texts of      *)
(* year, month, day), t (the event type), s = "on" exactly when            *)
(* after_sunset is true and n (the name with "+" for spaces) exactly when  *)
(* a name was given, and every other parameter is unchanged; with any      *)
(* other event type the call fails with a validation error and changes no  *)
(* parameter.                                                              *)

\* the six keys of an index
KeysOfIndex(index) == {IndexedKey(letter, index) : letter \in FieldLetters}

\* the keys outside the index are the same, with the same values
SameOutside(before, after, index) ==
    \A key \in ((DOMAIN before) \cup (DOMAIN after)) \ KeysOfIndex(index) :
        /\ key \in DOMAIN before
        /\ key \in DOMAIN after
        /\ after[key] = before[key]

AddEventPost(before, after, a, out) ==
    IF a.event_type \in EventTypes
    THEN /\ out.kind = "ok"
         /\ \A letter \in {"y", "m", "d", "t"} : IndexedKey(letter, a.index) \in DOMAIN after
         /\ after[IndexedKey("y", a.index)] = Str(a.year)
         /\ after[IndexedKey("m", a.index)] = Str(a.month)
         /\ after[IndexedKey("d", a.index)] = Str(a.day)
         /\ after[IndexedKey("t", a.index)] = StrV(a.event_type)
         /\ (IndexedKey("s", a.index) \in DOMAIN after) <=> a.after_sunset
         /\ a.after_sunset => after[IndexedKey("s", a.index)] = StrV("on")
         /\ (IndexedKey("n", a.index) \in DOMAIN after) <=> Truthy(a.name)
         /\ Truthy(a.name) => after[IndexedKey("n", a.index)] = ReplaceSpaces(a.name)
         /\ SameOutside(before, after, a.index)
    ELSE /\ out.kind = "raise"
         /\ out.exc = "ValueError"
         /\ after = before

C26_AddEventExact ==
    [][(Idle /\ call'.op = "add_event") =>
           AddEventPost(params["yahrzeit"], params'["yahrzeit"], call'.args, outcome')]_vars

\* what add_event does keep: y, m, d and t are set, s and n are set when
\* asked for, nothing outside the index changes, and a refused event type
\* changes nothing
C26_AddEventSets ==
    [][(Idle /\ call'.op = "add_event") =>
           LET a == call'.args
               after == params'["yahrzeit"]
           IN  IF a.event_type \in EventTypes
               THEN /\ outcome'.kind = "ok"
                    /\ after[IndexedKey("y", a.index)] = Str(a.year)
                    /\ after[IndexedKey("m", a.index)] = Str(a.month)
                    /\ after[IndexedKey("d", a.index)] = Str(a.day)
                    /\ after[IndexedKey("t", a.index)] = StrV(a.event_type)
                    /\ a.after_sunset => after[IndexedKey("s", a.index)] = StrV("on")
                    /\ Truthy(a.name) => after[IndexedKey("n", a.index)] = ReplaceSpaces(a.name)
                    /\ SameOutside(params["yahrzeit"], after, a.index)
               ELSE /\ outcome'.kind = "raise"
                    /\ outcome'.exc = "ValueError"
                    /\ after = params["yahrzeit"]]_vars

-----------------------------------------------------------------------------
(* C27: set_param(key, value) on Converter, Zmanim and Yahrzeit sets       *)
(* exactly that key for an allowed key and a value that is not None,       *)
(* removes the key for an allowed key and None (no error when it is        *)
(* absent) and fails with a validation error for a disallowed key; all     *)
(* other parameters are unchanged, and after a failure the mapping is      *)
(* exactly what it was before the call.                                    *)

SetParamPost(c, before, after, key, value, out) ==
    IF KeyBelongs(c, key)
    THEN /\ out.kind = "ok"
         /\ after = IF value = None THEN DictPop(before, key) ELSE DictSet(before, key, value)
    ELSE /\ out.kind = "raise"
         /\ out.exc = "ValueError"
         /\ after = before

\* the step is a set_param call on one of the clients cs
SetParamStep(cs) == Idle /\ call'.op = "set_param" /\ call'.client \in cs

C27_SetParam ==
    [][SetParamStep({"converter", "zmanim", "yahrzeit"}) =>
           /\ SetParamPost(call'.client, params[call'.client], params'[call'.client],
                           call'.args[1], call'.args[2], outcome')
           /\ \A c \in Clients \ {call'.client} : params'[c] = params[c]]_vars

\* the claim holds of Converter and Zmanim, whose allow-list is the only test
C27_SetParamByAllowList ==
    [][SetParamStep({"converter", "zmanim"}) =>
           /\ SetParamPost(call'.client, params[call'.client], params'[call'.client],
                           call'.args[1], call'.args[2], outcome')
           /\ \A c \in Clients \ {call'.client} : params'[c] = params[c]]_vars

\* on Yahrzeit too a failed call leaves the mapping as it was and a
\* successful one sets or removes exactly its key
C27_SetParamFrame ==
    [][SetParamStep({"converter", "zmanim", "yahrzeit"}) =>
           LET before == params[call'.client]
               after == params'[call'.client]
               key == call'.args[1]
               value == call'.args[2]
           IN  IF outcome'.kind = "ok"
               THEN after = IF value = None THEN DictPop(before, key)
                            ELSE DictSet(before, key, value)
               ELSE after = before]_vars

-----------------------------------------------------------------------------
(* C28: no request operation, blocking or suspending, whether it succeeds  *)
(* or fails, changes the stored parameter mapping of its client (or of any *)
(* other client): what one call was given is not in the mapping a later    *)
(* call sends.                                                             *)

RequestOps == PublicRequestOps \cup {"_get_calendar"}

C28_RequestsKeepParams ==
    [][(Idle /\ call'.op \in RequestOps) => params' = params]_vars

\* a request whose sent mapping holds keys of its arguments next to the stored
\* parameters, after set_param or add_event changed what the constructor stored
C28_Witness ==
    /\ call.op \in RequestOps
    /\ Len(sent) = 1
    /\ sent[1] # params[call.client]
    /\ params[call.client] # InitParams[call.client]

-----------------------------------------------------------------------------
(* _merge_params called on its own, on the mapping the constructor and the *)
(* set_param calls before it left.                                         *)

\* _merge_params(extra) of client c
MergeOf(c, stored, extra) ==
    CASE c = "calendar" -> Calendar_merge_params(stored, extra)
      [] c = "shabbat" -> Shabat_merge_params(stored, extra)
      [] c = "leyning" -> Leyning_merge_params(stored, extra)
      [] c = "zmanim" -> Zmanim_merge_params(stored, extra)
      [] c = "converter" -> Converter_merge_params(stored, extra)
      [] c = "yahrzeit" -> Yahrzeit_merge_params(stored, extra)

\* the extra mappings, each in the order of its dict
MergeExtras ==
    { <<>>,
      <<<<"cfg", StrV("xml")>>>>,
      <<<<"date", LaterText>>, <<"start", ValidText>>>>,
      <<<<"date", ValidText>>, <<"x1", StrV("x")>>, <<"geonameid", IntV(1)>>>>,
      <<<<"geonameid", IntV(281184)>>, <<"x1", StrV("x")>>>>,
      <<<<"y1", StrV("1990")>>, <<"name", StrV("Sara")>>>>,
      <<<<"", StrV("x")>>>> }

\* extra is None when has is false, and a dict otherwise; `if extra:` takes
\* None and the empty dict alike
CallMergeParams ==
    /\ Idle
    /\ \E c \in Clients, has \in BOOLEAN, extra \in MergeExtras :
        /\ has \/ extra = <<>>
        /\ call' = [op |-> "_merge_params", mode |-> "sync",
                    args |-> [has |-> has, items |-> extra], reply |-> NoReply,
                    client |-> c]
        /\ sent' = <<>>
        /\ outcome' = MergeOf(c, params[c], extra)
        /\ UNCHANGED <<params, nmut, log, padded>>

NextMerge == CallMergeParams \/ StoreSetParam \/ Return

SpecMerge == Init /\ [][NextMerge]_vars

-----------------------------------------------------------------------------
(* C29: for every endpoint client, _merge_params(extra) returns the stored *)
(* parameters overlaid with extra (a key of extra wins over a stored key)  *)
(* when every key of extra is allowed, returns a copy of the stored        *)
(* parameters when extra is absent or empty, and otherwise fails with a    *)
(* validation error naming the first disallowed key, before any network    *)
(* call.                                                                   *)

\* the value extra gives to one of its keys
ValueIn(extra, key) == extra[CHOOSE i \in 1..Len(extra) : extra[i][1] = key][2]

Overlay(stored, extra) ==
    [key \in (DOMAIN stored) \cup KeysOf(extra) |->
        IF key \in KeysOf(extra) THEN ValueIn(extra, key) ELSE stored[key]]

\* the first key of extra that client c does not allow
FirstDisallowed(c, extra) ==
    LET bad == {i \in 1..Len(extra) : ~KeyBelongs(c, extra[i][1])}
    IN  extra[CHOOSE i \in bad : \A j \in bad : i <= j][1]

MergePost(c, stored, extra, out) ==
    IF \A key \in KeysOf(extra) : KeyBelongs(c, key)
    THEN out = Ok(Overlay(stored, extra))
    ELSE /\ out.kind = "raise"
         /\ out.exc = "ValueError"
         /\ out.msg = FirstDisallowed(c, extra)
         /\ sent = <<>>

C29_MergeParams ==
    call.op = "_merge_params" =>
        MergePost(call.client, params[call.client], call.args.items, outcome)

\* the claim holds of the five clients whose allow-list is the only test
C29_MergeByAllowList ==
    (call.op = "_merge_params" /\ call.client # "yahrzeit") =>
        MergePost(call.client, params[call.client], call.args.items, outcome)

-----------------------------------------------------------------------------
(* Calendar._validate_date_params called on its own.                       *)

NoDateParams ==
    [start |-> None, end |-> None, year |-> None, yt |-> None, month |-> None, ny |-> None]

YearTypes == {None, StrV("G"), StrV("H"), StrV("X"), StrV("")}

Months ==
    {None, StrV("x"), IntV(0), IntV(1), IntV(12), IntV(13), Str(IntV(5)), StrV("abc")}

YearCounts == {None, IntV(0), IntV(1), IntV(2)}

RangeEnds == {None, ValidText, BadText, DateTime(2024, 2, 15)}

\* the options with or without a year, and start and end with or without one
DateParamArgs ==
    { [NoDateParams EXCEPT !.year = y, !.yt = yt, !.month = month, !.ny = ny] :
          y \in {None, IntV(2024)}, yt \in YearTypes, month \in Months, ny \in YearCounts }
    \cup
    { [NoDateParams EXCEPT !.year = y, !.start = start, !.end = end] :
          y \in {None, IntV(2024)}, start \in RangeEnds, end \in RangeEnds }

CallValidateDateParams ==
    /\ Idle
    /\ \E a \in DateParamArgs :
        /\ call' = [op |-> "_validate_date_params", mode |-> "sync", args |-> a,
                    reply |-> NoReply, client |-> "calendar"]
        /\ sent' = <<>>
        /\ outcome' = Calendar_validate_date_params(a.start, a.end, a.year, a.yt,
                                                    a.month, a.ny)
        /\ UNCHANGED <<params, nmut, log, padded>>

NextDateParams == CallValidateDateParams \/ Return

SpecDateParams == Init /\ [][NextDateParams]_vars

-----------------------------------------------------------------------------
(* C30: Calendar._validate_date_params accepts exactly two shapes: a year  *)
(* without start or end, with or without a year type that is 'G' or 'H', a *)
(* month that is 'x' or an integer from 1 to 12 and a number of years that *)
(* is at least 1, giving the mapping of exactly the supplied options; or   *)
(* both start and end without a year, giving {start, end}.  Every other    *)
(* combination fails with a validation error.                              *)

\* the options are sound: each one that is given (has.yt, has.month, has.ny)
\* has a value the claim allows
GoodOptions(a, has) ==
    /\ has.yt => a.yt \in {StrV("G"), StrV("H")}
    /\ has.month =>
           a.month = StrV("x") \/ (~NoNumeral(a.month) /\ a.month.n \in 1..12)
    /\ has.ny => a.ny.n >= 1

OptionItems(a, has) ==
    {<<"year", a.year>>}
    \cup (IF has.yt THEN {<<"yt", a.yt>>} ELSE {})
    \cup (IF has.month THEN {<<"month", a.month>>} ELSE {})
    \cup (IF has.ny THEN {<<"ny", a.ny>>} ELSE {})

ItemsOf(val) == {val[i] : i \in 1..Len(val)}

IsDate(v) == v.t = "datetime" \/ (v.t = "str" /\ StrptimeOk(v))

DateParamsPost(a, out, has) ==
    IF a.year # None /\ a.start = None /\ a.end = None /\ GoodOptions(a, has)
    THEN out.kind = "ok" /\ ItemsOf(out.val) = OptionItems(a, has)
    ELSE IF a.year = None /\ IsDate(a.start) /\ IsDate(a.end)
    THEN out.kind = "ok" /\ KeysOf(out.val) = {"start", "end"}
    ELSE out.kind = "raise" /\ out.exc = "ValueError"

C30_DateParamShapes ==
    call.op = "_validate_date_params" =>
        DateParamsPost(call.args, outcome,
                       [yt |-> call.args.yt # None, month |-> call.args.month # None,
                        ny |-> call.args.ny # None])

\* the claim holds when an empty year type and a month of 0 count as not
\* given, which is how `if yt:` and `if month:` take them
C30_TruthyOptions ==
    call.op = "_validate_date_params" =>
        DateParamsPost(call.args, outcome,
                       [yt |-> Truthy(call.args.yt), month |-> Truthy(call.args.month),
                        ny |-> call.args.ny # None])

====
